---- MODULE Spec2Model ----
(***************************************************************************)
(* State-machine model of fb-weekly-analyzer: the weekly analytics, the    *)
(* reach calculator, the aggregation service and the metric categorizer.   *)
(* The functions are pure: a behaviour starts from an input record array   *)
(* (weeklyDataArray) and every step is one call of one function on it,     *)
(* recorded with its arguments and its return value.                       *)
(*                                                                         *)
(* Numbers are JavaScript numbers.  Integers are kept exact; a quotient is *)
(* the IEEE-754 double nearest to it (FloatDiv, FloatMul), so Math.round   *)
(* sees the value the program sees.  A percentage with one decimal is      *)
(* returned as its number of tenths (28.7 is 287).                         *)
(***************************************************************************)
EXTENDS Integers, Sequences, FiniteSets, TLC

VARIABLES
  records,    \* the weeklyDataArray argument: a sequence of WeeklyPageData
  call,       \* the function called last ("none" before the first call)
  args,       \* its other arguments
  ret,        \* its return value
  consulted,  \* the metric keys it looked up in METRIC_DEFINITIONS
  uploadedPeriods,  \* App: the state uploadedPeriods
  selectedFiles,    \* WeeklyUploader: the state selectedFiles
  uploading,        \* WeeklyUploader: the state uploading
  uploadResults,    \* WeeklyUploader: the state uploadResults
  upload            \* the handleUpload in progress: where it waits, and the
                    \* selectedFiles and onDataUploaded of the render it was
                    \* created in

app == <<uploadedPeriods, selectedFiles, uploading, uploadResults, upload>>

vars == <<records, call, args, ret, consulted, app>>

(***************************************************************************)
(* Bounds of the model                                                     *)
(***************************************************************************)
MaxSeries  == 4   \* longest array of one page's weeks
MaxSmall   == 3   \* small metric values 0..MaxSmall
MaxChange  == 12  \* values 0..MaxChange compared week over week
MaxRecords == 3   \* longest array of records of several pages and weeks
MaxFiles   == 2   \* most files selected for one upload

Null == "null"

TypeError == "TypeError"

\* The outcome of a call that ends in an exception instead of a return value.
Throws(error) == [threw |-> error]
HasThrown(outcome) == "threw" \in DOMAIN outcome

(***************************************************************************)
(* JavaScript numbers: binary64 division and multiplication, Math.round    *)
(***************************************************************************)
MantissaBits == 53
ChunkBits    == 10
IntWindow    == 31
FracChunks   == 9
LimbBits     == 18

Abs(n) == IF n < 0 THEN 0 - n ELSE n

Bit(n, j) == (n \div (2 ^ j)) % 2

FloatZero == [m |-> <<>>, e |-> 0]

\* Round to nearest, ties to even: the bit string B (most significant bit
\* first, B[len] of weight 2^eLast, sticky = a non-zero tail was cut off) to a
\* double [m: MantissaBits bits, e: the weight of the last one].
RoundNearestEven(B, len, sticky, eLast) ==
  LET s     == CHOOSE j \in 1..len : B[j] = 1 /\ \A i \in 1..(j - 1) : B[i] = 0
      Bx(j) == IF j <= len THEN B[j] ELSE 0
      kept  == [i \in 1..MantissaBits |-> Bx(s + i - 1)]
      guard == Bx(s + MantissaBits)
      rest  == sticky \/ \E j \in (s + MantissaBits + 1)..len : B[j] = 1
      up    == guard = 1 /\ (rest \/ kept[MantissaBits] = 1)
      e     == eLast + (len - (s + MantissaBits - 1))
      zeros == {i \in 1..MantissaBits : kept[i] = 0}
      last0 == CHOOSE i \in zeros : \A k \in zeros : k <= i
  IN IF ~up THEN [m |-> kept, e |-> e]
     ELSE IF zeros = {}
          THEN [m |-> [i \in 1..MantissaBits |-> IF i = 1 THEN 1 ELSE 0], e |-> e + 1]
          ELSE [m |-> [i \in 1..MantissaBits |->
                         IF i < last0 THEN kept[i] ELSE IF i = last0 THEN 1 ELSE 0],
                e |-> e]

\* Long division of r / d (r < d), ChunkBits quotient bits a step:
\* <<the quotient digits, the last remainder>>.
RECURSIVE DivChunks(_, _, _)
DivChunks(r, d, count) ==
  IF count = 0 THEN <<<<>>, r>>
  ELSE LET t    == r * (2 ^ ChunkBits)
           tail == DivChunks(t % d, d, count - 1)
       IN <<(<<t \div d>> \o tail[1]), tail[2]>>

\* n / d in JavaScript, for integers n >= 0 and d >= 1: the double nearest to
\* the quotient.
FloatDiv(n, d) ==
  IF n = 0 THEN FloatZero
  ELSE LET ch  == DivChunks(n % d, d, FracChunks)
           len == IntWindow + FracChunks * ChunkBits
           B   == [j \in 1..len |->
                     IF j <= IntWindow THEN Bit(n \div d, IntWindow - j)
                     ELSE Bit(ch[1][((j - IntWindow - 1) \div ChunkBits) + 1],
                              ChunkBits - 1 - ((j - IntWindow - 1) % ChunkBits))]
       IN RoundNearestEven(B, len, ch[2] # 0, 0 - FracChunks * ChunkBits)

RECURSIVE BitsToInt(_, _, _)
BitsToInt(bits, from, to) ==
  IF from > to THEN 0 ELSE 2 * BitsToInt(bits, from, to - 1) + bits[to]

\* x * k in JavaScript, for a double x >= 0 and a small integer k >= 1.
FloatMul(x, k) ==
  IF x.m = <<>> THEN FloatZero
  ELSE LET base == 2 ^ LimbBits
           lo   == BitsToInt(x.m, MantissaBits - LimbBits + 1, MantissaBits) * k
           mid  == BitsToInt(x.m, MantissaBits - 2 * LimbBits + 1,
                             MantissaBits - LimbBits) * k + (lo \div base)
           hi   == BitsToInt(x.m, 1, MantissaBits - 2 * LimbBits) * k + (mid \div base)
           len  == IntWindow + 2 * LimbBits
           B    == [j \in 1..len |->
                      IF j <= IntWindow THEN Bit(hi, IntWindow - j)
                      ELSE IF j <= IntWindow + LimbBits
                           THEN Bit(mid % base, IntWindow + LimbBits - j)
                           ELSE Bit(lo % base, len - j)]
       IN RoundNearestEven(B, len, FALSE, x.e)

\* Math.round(x), or Math.round(-x) when neg: the nearest integer, a tie
\* going toward +Infinity.
MathRound(neg, x) ==
  IF x.m = <<>> THEN 0
  ELSE LET ib == MantissaBits + x.e IN
       IF ib < 0 THEN 0
       ELSE LET ip   == BitsToInt(x.m, 1, ib)
                more == x.m[ib + 1] = 1 /\ \E j \in (ib + 2)..MantissaBits : x.m[j] = 1
            IN IF neg THEN 0 - (ip + (IF more THEN 1 ELSE 0))
               ELSE ip + x.m[ib + 1]

(***************************************************************************)
(* weekly_models.js: Page, WeekPeriod, WeeklyMetrics, WeeklyPageData       *)
(***************************************************************************)
Page(pageId, pageName) == [pageId |-> pageId, pageName |-> pageName]

\* A date string "YYYY-MM-DD" is kept as <<year, month, day>>.
WeekPeriod(year, week, startDate, endDate) ==
  [year |-> year, week |-> week, startDate |-> startDate, endDate |-> endDate]

WeeklyMetrics(reach, engagements) == [reach |-> reach, engagements |-> engagements]

WeeklyPageData(page, period, metrics, status, comment) ==
  [page |-> page, period |-> period, metrics |-> metrics,
   status |-> status, comment |-> comment]

\* array.reduce((sum, v) => sum + v, 0)
RECURSIVE SumSeq(_)
SumSeq(s) == IF s = <<>> THEN 0 ELSE SumSeq(SubSeq(s, 1, Len(s) - 1)) + s[Len(s)]

\* weeklyDataArray.map(data => data.metrics[metric])
MetricValues(arr, metric) == [i \in 1..Len(arr) |-> arr[i].metrics[metric]]

SeqsUpTo(S, n) == UNION {[1..k -> S] : k \in 0..n}

(***************************************************************************)
(* reach_calculator                                                        *)
(***************************************************************************)
calculateAverageReachFloor(reachValues) ==
  IF Len(reachValues) = 0 THEN 0
  ELSE SumSeq(reachValues) \div Len(reachValues)

calculateAverageReachSum(reachValues) == SumSeq(reachValues)

calculateAverageReach(reachValues) ==
  IF Len(reachValues) = 0 THEN 0
  ELSE MathRound(FALSE, FloatDiv(SumSeq(reachValues), Len(reachValues)))

Min(S) == CHOOSE x \in S : \A y \in S : x <= y
Max(S) == CHOOSE x \in S : \A y \in S : x >= y
Range(s) == {s[i] : i \in 1..Len(s)}

findReachRange(reachValues) ==
  IF Len(reachValues) = 0 THEN [min |-> 0, max |-> 0]
  ELSE [min |-> Min(Range(reachValues)), max |-> Max(Range(reachValues))]

calculateAverageReachFromData(weeklyDataArray) ==
  IF Len(weeklyDataArray) = 0 THEN 0
  ELSE calculateAverageReach(MetricValues(weeklyDataArray, "reach"))


(***************************************************************************)
(* reach heuristic: detectIncorrectReachSum                                *)
(***************************************************************************)
detectIncorrectReachSumFromThreshold(suspectedSum, weekCount) ==
  IF weekCount <= 1 THEN Null
  ELSE IF suspectedSum >= 10000000 THEN "VARNING"
  ELSE Null

\* The warning is a text that quotes suspectedSum and weekCount; the model
\* keeps its first word.
detectIncorrectReachSum(suspectedSum, weekCount) ==
  IF weekCount <= 1 THEN Null
  ELSE LET suspiciouslyHigh == suspectedSum > 10000000
       IN IF suspiciouslyHigh THEN "VARNING" ELSE Null

(***************************************************************************)
(* weekly_analytics: week-over-week change                                 *)
(***************************************************************************)
\* The returned percentage has one decimal; the model returns its tenths
\* (Math.round(change * 10), before the division by 10).
calculateWeekOverWeekChange(currentValue, previousValue) ==
  IF previousValue = 0 THEN (IF currentValue > 0 THEN 100 * 10 ELSE 0)
  ELSE MathRound(currentValue < previousValue,
                 FloatMul(FloatMul(FloatDiv(Abs(currentValue - previousValue),
                                            previousValue), 100), 10))

(***************************************************************************)
(* weekly_analytics: statistics, best and worst week, trend, ranking       *)
(***************************************************************************)
\* changePercent is in tenths, as calculateWeekOverWeekChange returns it
calculateAverageTrendInclusive(values) ==
  IF Len(values) = 0
  THEN [average |-> 0, trend |-> "neutral", changePercent |-> 0]
  ELSE IF Len(values) = 1
  THEN [average |-> values[1], trend |-> "neutral", changePercent |-> 0]
  ELSE LET average       == FloatDiv(SumSeq(values), Len(values))
           first         == values[1]
           last          == values[Len(values)]
           changePercent == calculateWeekOverWeekChange(last, first)
       IN [average |-> MathRound(FALSE, average),
           trend |-> IF changePercent >= 5 * 10 THEN "increasing"
                     ELSE IF changePercent <= -(5 * 10) THEN "decreasing"
                     ELSE "neutral",
           changePercent |-> changePercent]

calculateAverageTrend(values) ==
  IF Len(values) = 0
  THEN [average |-> 0, trend |-> "neutral", changePercent |-> 0]
  ELSE IF Len(values) = 1
  THEN [average |-> values[1], trend |-> "neutral", changePercent |-> 0]
  ELSE LET average       == FloatDiv(SumSeq(values), Len(values))
           first         == values[1]
           last          == values[Len(values)]
           changePercent == calculateWeekOverWeekChange(last, first)
       IN [average |-> MathRound(FALSE, average),
           trend |-> IF changePercent > 5 * 10 THEN "increasing"
                     ELSE IF changePercent < -(5 * 10) THEN "decreasing"
                     ELSE "neutral",
           changePercent |-> changePercent]

\* [...array].sort(compare), with compare the difference of integer keys:
\* Array.prototype.sort is stable, so the element at index i lands after the
\* elements with a smaller key and after the earlier elements with the same key.
SortedPosition(keys, i) ==
  1 + Cardinality({j \in 1..Len(keys) :
                     keys[j] < keys[i] \/ (keys[j] = keys[i] /\ j < i)})

SortByKeys(array, keys) ==
  [k \in 1..Len(array) |->
     array[CHOOSE i \in 1..Len(array) : SortedPosition(keys, i) = k]]

\* a.period.startDate.localeCompare(b.period.startDate) on "YYYY-MM-DD" strings
\* orders them as the numbers YYYYMMDD.
StartDateKey(data) ==
  data.period.startDate[1] * 10000 + data.period.startDate[2] * 100
    + data.period.startDate[3]

SortByStartDate(weeklyDataArray) ==
  SortByKeys(weeklyDataArray,
             [i \in 1..Len(weeklyDataArray) |-> StartDateKey(weeklyDataArray[i])])

calculateWeekToWeekTrendUnsorted(weeklyDataArray) ==
  LET sorted == weeklyDataArray
  IN [i \in 1..Len(sorted) |->
        [period |-> sorted[i].period,
         reach |-> sorted[i].metrics.reach,
         engagements |-> sorted[i].metrics.engagements,
         reachChange |->
           IF i > 1 THEN calculateWeekOverWeekChange(sorted[i].metrics.reach,
                                                     sorted[i - 1].metrics.reach)
           ELSE 0,
         engagementsChange |->
           IF i > 1 THEN calculateWeekOverWeekChange(sorted[i].metrics.engagements,
                                                     sorted[i - 1].metrics.engagements)
           ELSE 0]]

calculateWeekToWeekTrend(weeklyDataArray) ==
  LET sorted == SortByStartDate(weeklyDataArray)
  IN [i \in 1..Len(sorted) |->
        [period |-> sorted[i].period,
         reach |-> sorted[i].metrics.reach,
         engagements |-> sorted[i].metrics.engagements,
         reachChange |->
           IF i > 1 THEN calculateWeekOverWeekChange(sorted[i].metrics.reach,
                                                     sorted[i - 1].metrics.reach)
           ELSE 0,
         engagementsChange |->
           IF i > 1 THEN calculateWeekOverWeekChange(sorted[i].metrics.engagements,
                                                     sorted[i - 1].metrics.engagements)
           ELSE 0]]

\* The forEach of findBestAndWorstWeek over the first n elements.
RECURSIVE ScanBestAndWorst(_, _, _)
ScanBestAndWorst(weeklyDataArray, metric, n) ==
  IF n = 0 THEN [best |-> weeklyDataArray[1], worst |-> weeklyDataArray[1]]
  ELSE LET before == ScanBestAndWorst(weeklyDataArray, metric, n - 1)
           data   == weeklyDataArray[n]
           value  == data.metrics[metric]
       IN [best  |-> IF value > before.best.metrics[metric] THEN data ELSE before.best,
           worst |-> IF value < before.worst.metrics[metric] THEN data ELSE before.worst]

findBestAndWorstWeekLastOfTies(weeklyDataArray, metric) ==
  IF Len(weeklyDataArray) = 0 THEN [best |-> Null, worst |-> Null]
  ELSE LET values == MetricValues(weeklyDataArray, metric)
           LastOf(v) == Max({i \in 1..Len(values) : values[i] = v})
       IN [best  |-> weeklyDataArray[LastOf(Max(Range(values)))],
           worst |-> weeklyDataArray[LastOf(Min(Range(values)))]]

findBestAndWorstWeek(weeklyDataArray, metric) ==
  IF Len(weeklyDataArray) = 0 THEN [best |-> Null, worst |-> Null]
  ELSE ScanBestAndWorst(weeklyDataArray, metric, Len(weeklyDataArray))

calculateMetricStatisticsUnsortedMedian(weeklyDataArray, metric) ==
  IF Len(weeklyDataArray) = 0
  THEN [min |-> 0, max |-> 0, average |-> 0, median |-> 0, total |-> 0]
  ELSE LET values == MetricValues(weeklyDataArray, metric)
           total  == SumSeq(values)
           mid    == Len(values) \div 2
       IN [min |-> Min(Range(values)), max |-> Max(Range(values)),
           average |-> MathRound(FALSE, FloatDiv(total, Len(values))),
           median |-> IF Len(values) % 2 = 0
                      THEN MathRound(FALSE, FloatDiv(values[mid] + values[mid + 1], 2))
                      ELSE values[mid + 1],
           total |-> total]

\* sorted[mid - 1] and sorted[mid] of the 0-based array are sorted[mid] and
\* sorted[mid + 1] here.
calculateMetricStatistics(weeklyDataArray, metric) ==
  IF Len(weeklyDataArray) = 0
  THEN [min |-> 0, max |-> 0, average |-> 0, median |-> 0, total |-> 0]
  ELSE LET values == MetricValues(weeklyDataArray, metric)
           total  == SumSeq(values)
           sorted == SortByKeys(values, values)
           mid    == Len(sorted) \div 2
       IN [min |-> Min(Range(values)), max |-> Max(Range(values)),
           average |-> MathRound(FALSE, FloatDiv(total, Len(values))),
           median |-> IF Len(sorted) % 2 = 0
                      THEN MathRound(FALSE, FloatDiv(sorted[mid] + sorted[mid + 1], 2))
                      ELSE sorted[mid + 1],
           total |-> total]

comparePeriods(period1Data, period2Data) ==
  LET period1Stats == [reach |-> calculateMetricStatistics(period1Data, "reach"),
                       engagements |-> calculateMetricStatistics(period1Data, "engagements")]
      period2Stats == [reach |-> calculateMetricStatistics(period2Data, "reach"),
                       engagements |-> calculateMetricStatistics(period2Data, "engagements")]
  IN [period1 |-> period1Stats,
      period2 |-> period2Stats,
      reachChange |-> calculateWeekOverWeekChange(period2Stats.reach.average,
                                                  period1Stats.reach.average),
      engagementsChange |-> calculateWeekOverWeekChange(period2Stats.engagements.total,
                                                        period1Stats.engagements.total)]

rankPagesByMetricUnstable(weeklyDataArray, metric) ==
  LET items  == [i \in 1..Len(weeklyDataArray) |->
                   [rank |-> 0, page |-> weeklyDataArray[i].page,
                    value |-> weeklyDataArray[i].metrics[metric],
                    status |-> weeklyDataArray[i].status]]
      sorted == SortByKeys(items, [i \in 1..Len(items) |->
                                     (0 - items[i].value) * (Len(items) + 1) - i])
  IN [i \in 1..Len(sorted) |-> [sorted[i] EXCEPT !.rank = i]]

\* sort((a, b) => b.value - a.value): ascending in the negated value
rankPagesByMetric(weeklyDataArray, metric) ==
  LET items  == [i \in 1..Len(weeklyDataArray) |->
                   [rank |-> 0, page |-> weeklyDataArray[i].page,
                    value |-> weeklyDataArray[i].metrics[metric],
                    status |-> weeklyDataArray[i].status]]
      sorted == SortByKeys(items, [i \in 1..Len(items) |-> 0 - items[i].value])
  IN [i \in 1..Len(sorted) |-> [sorted[i] EXCEPT !.rank = i]]

calculateVolatilitySample(weeklyDataArray, metric) ==
  IF Len(weeklyDataArray) < 2 THEN 0
  ELSE LET values  == MetricValues(weeklyDataArray, metric)
           n       == Len(values)
           squares == [i \in 1..n |-> values[i] * values[i]]
           num4    == 4 * (n * SumSeq(squares) - SumSeq(values) * SumSeq(values))
       IN IF num4 < n * (n - 1) THEN 0
          ELSE CHOOSE k \in 1..(2 * Max(Range(values))) :
                 /\ (2 * k - 1) * (2 * k - 1) * n * (n - 1) <= num4
                 /\ num4 < (2 * k + 1) * (2 * k + 1) * n * (n - 1)

\* Math.round(Math.sqrt(variance)) of the population variance
\* (n * sum(v^2) - sum(v)^2) / n^2: the k with (k - 1/2)^2 <= variance < (k + 1/2)^2.
\* The binary64 steps of the code give this k: the standard deviation lies on
\* k + 1/2 only when the mean is a multiple of 1/2, 1/4, ... (for n < 18), and
\* then the mean, the squares, their sum and the square root are exact; off a
\* half the distance to it is at least 1/n^2 relative, far above the rounding
\* error of the five steps.
calculateVolatility(weeklyDataArray, metric) ==
  IF Len(weeklyDataArray) < 2 THEN 0
  ELSE LET values  == MetricValues(weeklyDataArray, metric)
           n       == Len(values)
           squares == [i \in 1..n |-> values[i] * values[i]]
           num4    == 4 * (n * SumSeq(squares) - SumSeq(values) * SumSeq(values))
       IN IF num4 < n * n THEN 0
          ELSE CHOOSE k \in 1..Max(Range(values)) :
                 /\ (2 * k - 1) * (2 * k - 1) * n * n <= num4
                 /\ num4 < (2 * k + 1) * (2 * k + 1) * n * n

\* generatePageSummary without its first three lines: weeklyDataArray[0].page
\* of an empty array is a property of undefined.
generatePageSummaryNoEmptyGuard(weeklyDataArray) ==
  IF Len(weeklyDataArray) = 0 THEN Throws(TypeError)
  ELSE LET reachStats           == calculateMetricStatistics(weeklyDataArray, "reach")
           engagementsStats     == calculateMetricStatistics(weeklyDataArray, "engagements")
           reachBestWorst       == findBestAndWorstWeek(weeklyDataArray, "reach")
           engagementsBestWorst == findBestAndWorstWeek(weeklyDataArray, "engagements")
           trends               == calculateWeekToWeekTrend(weeklyDataArray)
       IN [page |-> weeklyDataArray[1].page,
           totalWeeks |-> Len(weeklyDataArray),
           reach |->
             [min |-> reachStats.min, max |-> reachStats.max,
              average |-> reachStats.average, median |-> reachStats.median,
              total |-> reachStats.total,
              bestWeek |-> reachBestWorst.best.period,
              worstWeek |-> reachBestWorst.worst.period,
              volatility |-> calculateVolatility(weeklyDataArray, "reach")],
           engagements |->
             [min |-> engagementsStats.min, max |-> engagementsStats.max,
              average |-> engagementsStats.average, median |-> engagementsStats.median,
              total |-> engagementsStats.total,
              bestWeek |-> engagementsBestWorst.best.period,
              worstWeek |-> engagementsBestWorst.worst.period,
              volatility |-> calculateVolatility(weeklyDataArray, "engagements")],
           trends |-> trends]

generatePageSummary(weeklyDataArray) ==
  IF Len(weeklyDataArray) = 0 THEN Null
  ELSE LET reachStats           == calculateMetricStatistics(weeklyDataArray, "reach")
           engagementsStats     == calculateMetricStatistics(weeklyDataArray, "engagements")
           reachBestWorst       == findBestAndWorstWeek(weeklyDataArray, "reach")
           engagementsBestWorst == findBestAndWorstWeek(weeklyDataArray, "engagements")
           trends               == calculateWeekToWeekTrend(weeklyDataArray)
       IN [page |-> weeklyDataArray[1].page,
           totalWeeks |-> Len(weeklyDataArray),
           reach |->
             [min |-> reachStats.min, max |-> reachStats.max,
              average |-> reachStats.average, median |-> reachStats.median,
              total |-> reachStats.total,
              bestWeek |-> reachBestWorst.best.period,
              worstWeek |-> reachBestWorst.worst.period,
              volatility |-> calculateVolatility(weeklyDataArray, "reach")],
           engagements |->
             [min |-> engagementsStats.min, max |-> engagementsStats.max,
              average |-> engagementsStats.average, median |-> engagementsStats.median,
              total |-> engagementsStats.total,
              bestWeek |-> engagementsBestWorst.best.period,
              worstWeek |-> engagementsBestWorst.worst.period,
              volatility |-> calculateVolatility(weeklyDataArray, "engagements")],
           trends |-> trends]

\* The counting loop of findConsistentGrowth after its first n iterations
\* (i = 1..n of the 0-based loop), with a fall that leaves the count standing.
RECURSIVE GrowthLoopNoReset(_, _, _)
GrowthLoopNoReset(sorted, metric, n) ==
  IF n = 0 THEN [consecutiveGrowthWeeks |-> 0, maxConsecutiveGrowth |-> 0]
  ELSE LET before   == GrowthLoopNoReset(sorted, metric, n - 1)
           current  == sorted[n + 1].metrics[metric]
           previous == sorted[n].metrics[metric]
       IN IF current > previous
          THEN [consecutiveGrowthWeeks |-> before.consecutiveGrowthWeeks + 1,
                maxConsecutiveGrowth |->
                  Max({before.maxConsecutiveGrowth, before.consecutiveGrowthWeeks + 1})]
          ELSE before

\* The counting loop of findConsistentGrowth after its first n iterations
\* (i = 1..n of the 0-based loop).
RECURSIVE GrowthLoop(_, _, _)
GrowthLoop(sorted, metric, n) ==
  IF n = 0 THEN [consecutiveGrowthWeeks |-> 0, maxConsecutiveGrowth |-> 0]
  ELSE LET before   == GrowthLoop(sorted, metric, n - 1)
           current  == sorted[n + 1].metrics[metric]
           previous == sorted[n].metrics[metric]
       IN IF current > previous
          THEN [consecutiveGrowthWeeks |-> before.consecutiveGrowthWeeks + 1,
                maxConsecutiveGrowth |->
                  Max({before.maxConsecutiveGrowth, before.consecutiveGrowthWeeks + 1})]
          ELSE [consecutiveGrowthWeeks |-> 0,
                maxConsecutiveGrowth |-> before.maxConsecutiveGrowth]

\* dataByPage is the sequence of its property values (one array per page) in
\* the order of for...in.  The loop over the first n of them:
RECURSIVE ConsistentGrowthLoop(_, _, _, _)
ConsistentGrowthLoop(dataByPage, metric, minWeeks, n) ==
  IF n = 0 THEN <<>>
  ELSE LET before   == ConsistentGrowthLoop(dataByPage, metric, minWeeks, n - 1)
           pageData == dataByPage[n]
       IN IF Len(pageData) < minWeeks + 1 THEN before
          ELSE LET sorted == SortByStartDate(pageData)
                   maxConsecutiveGrowth ==
                     GrowthLoop(sorted, metric, Len(sorted) - 1).maxConsecutiveGrowth
               IN IF maxConsecutiveGrowth >= minWeeks
                  THEN Append(before, [page |-> sorted[1].page,
                                       consecutiveWeeks |-> maxConsecutiveGrowth,
                                       totalWeeks |-> Len(sorted)])
                  ELSE before

findConsistentGrowth(dataByPage, metric, minWeeks) ==
  LET consistentGrowthPages ==
        ConsistentGrowthLoop(dataByPage, metric, minWeeks, Len(dataByPage))
  IN SortByKeys(consistentGrowthPages,
                [i \in 1..Len(consistentGrowthPages) |->
                   0 - consistentGrowthPages[i].consecutiveWeeks])

(***************************************************************************)
(* Array.prototype.sort sorts the array it is called on and returns it.    *)
(* What the caller's array holds after a function has sorted:              *)
(***************************************************************************)
\* array.sort(compare): the array itself is put in order
ArgumentAfterSortInPlace(array, sorted) == sorted

\* [...array].sort(compare): a new array is put in order, the argument is not
ArgumentAfterSortOfCopy(array, sorted) == array

(***************************************************************************)
(* reach_calculator: comparison of two weeks, trend of a series            *)
(***************************************************************************)
\* percentChange has one decimal and is returned as its number of tenths.
compareReachBetweenWeeks(week1Reach, week2Reach) ==
  LET difference    == week2Reach - week1Reach
      percentChange ==
        IF week1Reach > 0
        THEN MathRound(difference < 0,
                       FloatMul(FloatMul(FloatDiv(Abs(difference), week1Reach), 100), 10))
        ELSE 0
  IN [difference |-> difference,
      percentChange |-> percentChange,
      interpretation |-> IF percentChange > 5 * 10 THEN "increase"
                         ELSE IF percentChange < (0 - 5) * 10 THEN "decrease"
                         ELSE "neutral"]

\* weeklyData is an array of {week, reach}
analyzeReachTrend(weeklyData) ==
  IF Len(weeklyData) = 0 THEN Null
  ELSE LET sorted == SortByKeys(weeklyData, [i \in 1..Len(weeklyData) |-> weeklyData[i].week])
           reachValues == [i \in 1..Len(sorted) |-> sorted[i].reach]
           range == findReachRange(reachValues)
           trendComparison ==
             compareReachBetweenWeeks(sorted[1].reach, sorted[Len(sorted)].reach)
       IN [average |-> calculateAverageReach(reachValues),
           min |-> range.min,
           max |-> range.max,
           trend |-> trendComparison.interpretation,
           overallChange |-> trendComparison.percentChange,
           weekCount |-> Len(sorted)]

(***************************************************************************)
(* Strings built by the code: a string is the sequence of its characters   *)
(***************************************************************************)
DigitChars == <<"0", "1", "2", "3", "4", "5", "6", "7", "8", "9">>

\* `${n}` and String(n) of a non-negative integer
RECURSIVE NumberToString(_)
NumberToString(n) ==
  IF n < 10 THEN <<DigitChars[n + 1]>>
  ELSE NumberToString(n \div 10) \o <<DigitChars[(n % 10) + 1]>>

\* str.padStart(targetLength, padString) with a one-character padString
padStart(str, targetLength, padString) ==
  IF Len(str) >= targetLength THEN str
  ELSE [i \in 1..(targetLength - Len(str)) |-> padString] \o str

\* UTF-16 code units of the characters that occur in keys
CodeUnit(char) ==
  IF char = "_" THEN 95
  ELSE IF char = "Q" THEN 81
  ELSE 47 + (CHOOSE d \in 1..10 : DigitChars[d] = char)

\* a < b in the order of Array.prototype.sort() without a comparator:
\* code unit by code unit, a proper prefix first
StringLess(a, b) ==
  \E i \in 1..(Len(b)) :
    /\ \A j \in 1..(i - 1) : j <= Len(a) /\ a[j] = b[j]
    /\ \/ i = Len(a) + 1
       \/ i <= Len(a) /\ CodeUnit(a[i]) < CodeUnit(b[i])

SortStrings(strings) ==
  [k \in 1..Len(strings) |->
     strings[CHOOSE i \in 1..Len(strings) :
               k = 1 + Cardinality({j \in 1..Len(strings) :
                                      \/ StringLess(strings[j], strings[i])
                                      \/ strings[j] = strings[i] /\ j < i})]]

\* [...new Set(array)]: the distinct elements in order of first occurrence
RECURSIVE Unique(_)
Unique(array) ==
  IF Len(array) = 0 THEN <<>>
  ELSE LET front == Unique(SubSeq(array, 1, Len(array) - 1))
           last  == array[Len(array)]
       IN IF last \in Range(front) THEN front ELSE Append(front, last)

(***************************************************************************)
(* weekly_models: WeekPeriod methods                                       *)
(***************************************************************************)
getPeriodKey(period) == NumberToString(period.year) \o <<"_">> \o NumberToString(period.week)

MonthNames ==
  <<"Januari", "Februari", "Mars", "April", "Maj", "Juni",
    "Juli", "Augusti", "September", "Oktober", "November", "December">>

\* new Date(startDate).getMonth() + 1: the month of the start date. (A date-only
\* string is midnight UTC and getMonth reads local time, so west of UTC a start
\* date on the 1st reads as the month before; no start date here is a 1st.)
getMonthNumber(period) == period.startDate[2]

getMonthName(period) == MonthNames[getMonthNumber(period)]

getDisplayString(period) ==
  <<"Vecka ", period.week, " (", period.startDate, " -> ", period.endDate, ")">>

(***************************************************************************)
(* aggregation_service: grouping                                           *)
(***************************************************************************)
\* {}: an object without own properties
EmptyObject == <<>>

NewGroupMetrics(count) ==
  [m \in {"totalEngagements", "averageReach", count} |-> 0]

RECURSIVE GroupLoopAssigningTotals(_, _, _, _, _, _)
GroupLoopAssigningTotals(weeklyDataArray, n, keys, fresh, members, count) ==
  IF n = 0 THEN EmptyObject
  ELSE LET before == GroupLoopAssigningTotals(weeklyDataArray, n - 1, keys, fresh, members, count)
           data   == weeklyDataArray[n]
           key    == keys[n]
           groups == IF key \in DOMAIN before THEN before
                     ELSE before @@ (key :> fresh[n])
       IN [groups EXCEPT
             ![key][members] = Append(@, data),
             ![key].metrics.totalEngagements = data.metrics.engagements,
             ![key].metrics[count] = @ + 1]

\* The grouping forEach over the first n records: keys[i] is the key of record
\* i and fresh[i] the group created when that key is new; the record is pushed
\* onto the group's member array and added to its engagement total and count.
RECURSIVE GroupLoop(_, _, _, _, _, _)
GroupLoop(weeklyDataArray, n, keys, fresh, members, count) ==
  IF n = 0 THEN EmptyObject
  ELSE LET before == GroupLoop(weeklyDataArray, n - 1, keys, fresh, members, count)
           data   == weeklyDataArray[n]
           key    == keys[n]
           groups == IF key \in DOMAIN before THEN before
                     ELSE before @@ (key :> fresh[n])
       IN [groups EXCEPT
             ![key][members] = Append(@, data),
             ![key].metrics.totalEngagements = @ + data.metrics.engagements,
             ![key].metrics[count] = @ + 1]

\* The for...in that sets averageReach of every group
SetAverageReach(groups, members) ==
  [key \in DOMAIN groups |->
     [groups[key] EXCEPT
        !.metrics.averageReach =
           calculateAverageReach(MetricValues(groups[key][members], "reach"))]]

aggregateByPage(weeklyDataArray) ==
  IF Len(weeklyDataArray) = 0 THEN EmptyObject
  ELSE SetAverageReach(
         GroupLoop(weeklyDataArray, Len(weeklyDataArray),
                   [i \in 1..Len(weeklyDataArray) |-> weeklyDataArray[i].page.pageId],
                   [i \in 1..Len(weeklyDataArray) |->
                      [page |-> weeklyDataArray[i].page, weeks |-> <<>>,
                       metrics |-> NewGroupMetrics("weekCount")]],
                   "weeks", "weekCount"),
         "weeks")

MonthKey(period) ==
  NumberToString(period.year) \o <<"_">> \o padStart(NumberToString(getMonthNumber(period)), 2, "0")

aggregateByMonth(weeklyDataArray) ==
  IF Len(weeklyDataArray) = 0 THEN EmptyObject
  ELSE SetAverageReach(
         GroupLoop(weeklyDataArray, Len(weeklyDataArray),
                   [i \in 1..Len(weeklyDataArray) |-> MonthKey(weeklyDataArray[i].period)],
                   [i \in 1..Len(weeklyDataArray) |->
                      [year |-> weeklyDataArray[i].period.year,
                       month |-> getMonthNumber(weeklyDataArray[i].period),
                       monthName |-> getMonthName(weeklyDataArray[i].period),
                       weeks |-> <<>>,
                       metrics |-> NewGroupMetrics("weekCount")]],
                   "weeks", "weekCount"),
         "weeks")

aggregateByWeekNamingWeeks(weeklyDataArray) ==
  IF Len(weeklyDataArray) = 0 THEN EmptyObject
  ELSE SetAverageReach(
         GroupLoop(weeklyDataArray, Len(weeklyDataArray),
                   [i \in 1..Len(weeklyDataArray) |-> getPeriodKey(weeklyDataArray[i].period)],
                   [i \in 1..Len(weeklyDataArray) |->
                      [period |-> weeklyDataArray[i].period, weeks |-> <<>>,
                       metrics |-> NewGroupMetrics("weekCount")]],
                   "weeks", "weekCount"),
         "weeks")

aggregateByWeek(weeklyDataArray) ==
  IF Len(weeklyDataArray) = 0 THEN EmptyObject
  ELSE SetAverageReach(
         GroupLoop(weeklyDataArray, Len(weeklyDataArray),
                   [i \in 1..Len(weeklyDataArray) |-> getPeriodKey(weeklyDataArray[i].period)],
                   [i \in 1..Len(weeklyDataArray) |->
                      [period |-> weeklyDataArray[i].period, pages |-> <<>>,
                       metrics |-> NewGroupMetrics("pageCount")]],
                   "pages", "pageCount"),
         "pages")

\* Math.ceil(month / 3)
Quarter(period) == (getMonthNumber(period) + 2) \div 3

QuarterKey(period) ==
  NumberToString(period.year) \o <<"_", "Q">> \o NumberToString(Quarter(period))

aggregateByQuarterSummingReach(weeklyDataArray) ==
  IF Len(weeklyDataArray) = 0 THEN EmptyObject
  ELSE LET groups ==
             GroupLoop(weeklyDataArray, Len(weeklyDataArray),
                       [i \in 1..Len(weeklyDataArray) |-> QuarterKey(weeklyDataArray[i].period)],
                       [i \in 1..Len(weeklyDataArray) |->
                          [year |-> weeklyDataArray[i].period.year,
                           quarter |-> Quarter(weeklyDataArray[i].period),
                           weeks |-> <<>>,
                           metrics |-> NewGroupMetrics("weekCount")]],
                       "weeks", "weekCount")
       IN [key \in DOMAIN groups |->
             [groups[key] EXCEPT
                !.metrics.averageReach = SumSeq(MetricValues(groups[key].weeks, "reach"))]]

aggregateByQuarter(weeklyDataArray) ==
  IF Len(weeklyDataArray) = 0 THEN EmptyObject
  ELSE SetAverageReach(
         GroupLoop(weeklyDataArray, Len(weeklyDataArray),
                   [i \in 1..Len(weeklyDataArray) |-> QuarterKey(weeklyDataArray[i].period)],
                   [i \in 1..Len(weeklyDataArray) |->
                      [year |-> weeklyDataArray[i].period.year,
                       quarter |-> Quarter(weeklyDataArray[i].period),
                       weeks |-> <<>>,
                       metrics |-> NewGroupMetrics("weekCount")]],
                   "weeks", "weekCount"),
         "weeks")

(***************************************************************************)
(* aggregation_service: totals, summary, time series, pivot table          *)
(***************************************************************************)
sumEngagements(weeklyDataArray) ==
  IF Len(weeklyDataArray) = 0 THEN 0
  ELSE SumSeq(MetricValues(weeklyDataArray, "engagements"))

calculateTotalReach(weeklyDataArray) ==
  IF Len(weeklyDataArray) = 0 THEN 0
  ELSE calculateAverageReach(MetricValues(weeklyDataArray, "reach"))

createSummary(weeklyDataArray) ==
  IF Len(weeklyDataArray) = 0
  THEN [totalWeeks |-> 0, totalPages |-> 0,
        metrics |-> [totalEngagements |-> 0, averageReach |-> 0]]
  ELSE LET uniquePages == {weeklyDataArray[i].page.pageId : i \in 1..Len(weeklyDataArray)}
           uniqueWeeks == {getPeriodKey(weeklyDataArray[i].period) :
                             i \in 1..Len(weeklyDataArray)}
       IN [totalWeeks |-> Cardinality(uniqueWeeks),
           totalPages |-> Cardinality(uniquePages),
           totalDataPoints |-> Len(weeklyDataArray),
           metrics |-> [totalEngagements |-> sumEngagements(weeklyDataArray),
                        averageReach |-> calculateTotalReach(weeklyDataArray)]]

aggregatePageTimeseries(weeklyDataArray) ==
  IF Len(weeklyDataArray) = 0 THEN Null
  ELSE LET sorted     == SortByStartDate(weeklyDataArray)
           timeseries == [i \in 1..Len(sorted) |->
                            [period |-> [year |-> sorted[i].period.year,
                                         week |-> sorted[i].period.week,
                                         startDate |-> sorted[i].period.startDate,
                                         endDate |-> sorted[i].period.endDate,
                                         displayString |-> getDisplayString(sorted[i].period)],
                             metrics |-> [reach |-> sorted[i].metrics.reach,
                                          engagements |-> sorted[i].metrics.engagements],
                             status |-> sorted[i].status]]
       IN [page |-> sorted[1].page,
           timeseries |-> timeseries,
           summary |-> [weekCount |-> Len(timeseries),
                        totalEngagements |-> sumEngagements(sorted),
                        averageReach |-> calculateTotalReach(sorted)]]

RECURSIVE PivotLoopKeepFirst(_, _, _)
PivotLoopKeepFirst(weeklyDataArray, metric, n) ==
  IF n = 0 THEN EmptyObject
  ELSE LET before  == PivotLoopKeepFirst(weeklyDataArray, metric, n - 1)
           data    == weeklyDataArray[n]
           pageId  == data.page.pageId
           weekKey == getPeriodKey(data.period)
           rows    == IF pageId \in DOMAIN before THEN before
                      ELSE before @@ (pageId :> [page |-> data.page, weeks |-> EmptyObject])
       IN [rows EXCEPT
             ![pageId].weeks = IF weekKey \in DOMAIN @ THEN @
                               ELSE @ @@ (weekKey :> data.metrics[metric])]

\* The forEach of createPivotTable over the first n records; the assignment to
\* weeks[weekKey] replaces a value stored for the same page and week.
RECURSIVE PivotLoop(_, _, _)
PivotLoop(weeklyDataArray, metric, n) ==
  IF n = 0 THEN EmptyObject
  ELSE LET before  == PivotLoop(weeklyDataArray, metric, n - 1)
           data    == weeklyDataArray[n]
           pageId  == data.page.pageId
           weekKey == getPeriodKey(data.period)
           rows    == IF pageId \in DOMAIN before THEN before
                      ELSE before @@ (pageId :> [page |-> data.page, weeks |-> EmptyObject])
       IN [rows EXCEPT
             ![pageId].weeks = (weekKey :> data.metrics[metric]) @@ @]

createPivotTable(weeklyDataArray, metric) ==
  IF Len(weeklyDataArray) = 0
  THEN [pages |-> <<>>, weeks |-> <<>>, data |-> EmptyObject]
  ELSE [pages |-> Unique([i \in 1..Len(weeklyDataArray) |->
                            weeklyDataArray[i].page.pageId]),
        weeks |-> SortStrings(Unique([i \in 1..Len(weeklyDataArray) |->
                                        getPeriodKey(weeklyDataArray[i].period)])),
        data |-> PivotLoop(weeklyDataArray, metric, Len(weeklyDataArray)),
        metric |-> metric]

(***************************************************************************)
(* aggregation_service: comparison of pages within a week                  *)
(***************************************************************************)
aggregateForWeekComparison(weeklyDataArray, year, week) ==
  IF Len(weeklyDataArray) = 0 THEN <<>>
  ELSE LET IsOfWeek(data) == data.period.year = year /\ data.period.week = week
           weekData == SelectSeq(weeklyDataArray, IsOfWeek)
           entries  == [i \in 1..Len(weekData) |->
                          [page |-> weekData[i].page,
                           metrics |-> [reach |-> weekData[i].metrics.reach,
                                        engagements |-> weekData[i].metrics.engagements],
                           status |-> weekData[i].status]]
       IN SortByKeys(entries,
                     [i \in 1..Len(entries) |-> 0 - entries[i].metrics.engagements])

\* percentage has one decimal and is returned as its number of tenths.
calculateEngagementDistribution(weeklyDataArray) ==
  IF Len(weeklyDataArray) = 0 THEN <<>>
  ELSE LET totalEngagements == sumEngagements(weeklyDataArray)
       IN IF totalEngagements = 0
          THEN [i \in 1..Len(weeklyDataArray) |->
                  [page |-> weeklyDataArray[i].page, engagements |-> 0, percentage |-> 0]]
          ELSE LET entries ==
                     [i \in 1..Len(weeklyDataArray) |->
                        [page |-> weeklyDataArray[i].page,
                         engagements |-> weeklyDataArray[i].metrics.engagements,
                         percentage |->
                           MathRound(FALSE,
                             FloatMul(FloatMul(
                               FloatDiv(weeklyDataArray[i].metrics.engagements,
                                        totalEngagements), 100), 10))]]
               IN SortByKeys(entries,
                             [i \in 1..Len(entries) |-> 0 - entries[i].engagements])

(***************************************************************************)
(* weekly_models: WeeklyDataset; the variable records is its array data    *)
(***************************************************************************)
\* this.data.unshift(weeklyData)
addDataUnshift(data, weeklyData) == <<weeklyData>> \o data

\* this.data.push(weeklyData)
addData(data, weeklyData) == Append(data, weeklyData)

(***************************************************************************)
(* csv_processor: the rows of Papa.parse become the records of a dataset   *)
(***************************************************************************)
\* A field of a row parsed with dynamicTyping is null (an empty field), a
\* number (kept in tenths: 41.5 is 415) or a non-empty string.  The text of a
\* string field that parseInt reads is a sequence of characters.
Truthy(field) ==
  CASE field.kind = "null"   -> FALSE
    [] field.kind = "number" -> field.tenths # 0
    [] field.kind = "string" -> TRUE

\* parseInt(x): of a number the integer part of its decimal form, of a text
\* its leading optionally signed digits, NaN when there are none.
parseInt(field) ==
  IF field.kind = "number"
  THEN [nan |-> FALSE,
        value |-> IF field.tenths >= 0 THEN field.tenths \div 10
                  ELSE 0 - ((0 - field.tenths) \div 10)]
  ELSE IF field.kind = "string"
  THEN LET chars    == field.text
           negative == Len(chars) > 0 /\ chars[1] = "-"
           from     == IF negative THEN 2 ELSE 1
           IsDigit(c) == \E d \in 1..10 : DigitChars[d] = c
           last     == Max({from - 1} \cup
                           {k \in from..Len(chars) : \A j \in from..k : IsDigit(chars[j])})
           digit(c) == (CHOOSE d \in 1..10 : DigitChars[d] = c) - 1
           val[k \in (from - 1)..last] ==
             IF k = from - 1 THEN 0 ELSE val[k - 1] * 10 + digit(chars[k])
       IN IF last < from THEN [nan |-> TRUE, value |-> 0]
          ELSE [nan |-> FALSE, value |-> IF negative THEN 0 - val[last] ELSE val[last]]
  ELSE [nan |-> TRUE, value |-> 0]

\* WeeklyPageData.fromCSVRow with Page.fromCSVRow, WeekPeriod.fromCSVRow and
\* WeeklyMetrics.fromCSVRow; the rows that come this far have a year and a
\* week that are numbers.
fromCSVRow(csvRow) ==
  LET OrZero(n) == IF n.nan THEN 0 ELSE n.value
      page    == Page(csvRow.page_id.text,
                      IF Truthy(csvRow.page_name) THEN csvRow.page_name.text
                      ELSE "Okand sida")
      period  == WeekPeriod(parseInt(csvRow.year).value, parseInt(csvRow.week).value,
                            csvRow.start_date, csvRow.end_date)
      metrics == WeeklyMetrics(OrZero(parseInt(csvRow.reach)),
                               OrZero(parseInt(csvRow.engagements)))
  IN WeeklyPageData(page, period, metrics,
                    IF Truthy(csvRow.status) THEN csvRow.status.text ELSE "UNKNOWN",
                    IF Truthy(csvRow.comment) THEN csvRow.comment.text ELSE Null)

\* parseWeeklyCSV once Papa.parse has delivered the rows under the ten
\* expected columns; dataset is the array WeeklyDataset.data.
parseWeeklyCSV(rows) ==
  LET HasRequired(row) ==
        Truthy(row.page_id) /\ Truthy(row.page_name) /\ Truthy(row.year) /\ Truthy(row.week)
      kept      == SelectSeq(rows, HasRequired)
      dataset   == [i \in 1..Len(kept) |-> fromCSVRow(kept[i])]
      validRows == Len(kept)
  IN IF Len(rows) < 1 \/ validRows = 0
     THEN [success |-> FALSE, dataset |-> Null]
     ELSE [success |-> TRUE, dataset |-> dataset,
           stats |-> [totalRows |-> Len(rows), validRows |-> validRows,
                      invalidRows |-> Len(rows) - validRows]]

(***************************************************************************)
(* period_extractor and period_validator: the name of an uploaded file     *)
(***************************************************************************)
\* String.prototype.toLowerCase, and the i flag of a regular expression
toLowerCase(chars) ==
  LET upper == <<"A", "B", "C", "D", "E", "F", "G", "H", "I", "J", "K", "L", "M",
                 "N", "O", "P", "Q", "R", "S", "T", "U", "V", "W", "X", "Y", "Z">>
      lower == <<"a", "b", "c", "d", "e", "f", "g", "h", "i", "j", "k", "l", "m",
                 "n", "o", "p", "q", "r", "s", "t", "u", "v", "w", "x", "y", "z">>
  IN [i \in 1..Len(chars) |->
        IF \E k \in 1..26 : upper[k] = chars[i]
        THEN lower[CHOOSE k \in 1..26 : upper[k] = chars[i]]
        ELSE chars[i]]

\* filename.match(/week[_-]?(\d{1,2})(?:\.csv)?$/i): the pattern is not
\* anchored at the start, so it is looked for at every position.  The result
\* is a number with a week, or null.
extractWeekFromFilename(filename) ==
  LET chars == toLowerCase(filename)
      IsDigits(s) == Len(s) \in 1..2 /\ \A i \in 1..Len(s) : \E d \in 1..10 : DigitChars[d] = s[i]
      matches == {m \in [from : 1..Len(chars), sep : 0..1, digits : 1..2, csv : BOOLEAN] :
                    LET rest == SubSeq(chars, m.from, Len(chars))
                    IN /\ Len(rest) = 4 + m.sep + m.digits + (IF m.csv THEN 4 ELSE 0)
                       /\ SubSeq(rest, 1, 4) = <<"w", "e", "e", "k">>
                       /\ m.sep = 1 => rest[5] \in {"_", "-"}
                       /\ IsDigits(SubSeq(rest, 5 + m.sep, 4 + m.sep + m.digits))
                       /\ m.csv => SubSeq(rest, Len(rest) - 3, Len(rest))
                                     = <<".", "c", "s", "v">>}
  IN IF matches = {} THEN [kind |-> "null"]
     ELSE LET match == CHOOSE m \in matches : \A n \in matches : m.from <= n.from
              week  == parseInt([kind |-> "string",
                                 text |-> SubSeq(chars, match.from + 4 + match.sep,
                                                 match.from + 3 + match.sep + match.digits)]).value
          IN IF week >= 1 /\ week <= 53 THEN [week |-> week, kind |-> "number"]
             ELSE [kind |-> "null"]

\* validateFile with validateBasicFileProperties, validateFilenameAndExtractPeriod
\* and checkForPeriodDuplicate; an error or warning is kept as its type.
validateFile(file, existingPeriods) ==
  LET basicErrors   == IF file.size = 0 THEN <<"file_format_error">> ELSE <<>>
      basicWarnings ==
        (IF file.size > 5 * 1024 * 1024 THEN <<"file_format_error">> ELSE <<>>)
          \o (IF file.type \notin {"", "text/csv", "text/plain"}
              THEN <<"file_format_error">> ELSE <<>>)
      lowered  == toLowerCase(file.name)
      endsWith == /\ Len(lowered) >= 4
                  /\ SubSeq(lowered, Len(lowered) - 3, Len(lowered)) = <<".", "c", "s", "v">>
      \* /^week[_-]?\d{1,2}\.csv$/i
      matchesPattern ==
        \E sep \in 0..1, digits \in 1..2 :
          /\ Len(lowered) = 4 + sep + digits + 4
          /\ SubSeq(lowered, 1, 4) = <<"w", "e", "e", "k">>
          /\ sep = 1 => lowered[5] \in {"_", "-"}
          /\ \A i \in (5 + sep)..(4 + sep + digits) : \E d \in 1..10 : DigitChars[d] = lowered[i]
          /\ endsWith
      extracted == extractWeekFromFilename(file.name)
      isNull    == extracted.kind = "null"
      week      == extracted.week
      \* isValidWeek
      isValidWeek == week >= 1 /\ week <= 53
      nameErrors ==
        (IF ~endsWith THEN <<"filename_error">> ELSE <<>>)
          \o (IF ~matchesPattern THEN <<"filename_error">> ELSE <<>>)
          \o (IF isNull THEN <<"filename_error">>
              ELSE IF ~isValidWeek THEN <<"filename_error">> ELSE <<>>)
      fileInfo == [size |-> file.size, type |-> file.type, name |-> file.name]
      \* checkForPeriodDuplicate returns isValid: true with its warnings
      duplicateCheck ==
        [isValid |-> TRUE,
         warnings |-> IF ~isNull /\ \E i \in 1..Len(existingPeriods) :
                                       existingPeriods[i].week = week
                      THEN <<"period_conflict_error">> ELSE <<>>]
  IN IF basicErrors # <<>>
     THEN [period |-> Null, fileInfo |-> fileInfo, isValid |-> FALSE,
           warnings |-> basicWarnings, errors |-> basicErrors]
     ELSE IF nameErrors # <<>>
     THEN [period |-> Null, fileInfo |-> fileInfo, isValid |-> FALSE,
           warnings |-> <<>>, errors |-> nameErrors]
     ELSE [period |-> [week |-> week, filename |-> file.name], fileInfo |-> fileInfo,
           isValid |-> TRUE,
           warnings |-> IF ~duplicateCheck.isValid THEN duplicateCheck.warnings ELSE <<>>,
           errors |-> <<>>]

(***************************************************************************)
(* App: handleDataUploaded; WeeklyUploader: the steps of handleUpload      *)
(***************************************************************************)
MergeLoopReplacing(mergedPeriods, periods, n) ==
  LET Replaced(i) ==
        IF \E k \in 1..n : /\ periods[k].year = mergedPeriods[i].year
                           /\ periods[k].week = mergedPeriods[i].week
        THEN periods[CHOOSE k \in 1..n : /\ periods[k].year = mergedPeriods[i].year
                                         /\ periods[k].week = mergedPeriods[i].week]
        ELSE mergedPeriods[i]
      IsNew(newPeriod) ==
        ~\E i \in 1..Len(mergedPeriods) : /\ mergedPeriods[i].year = newPeriod.year
                                          /\ mergedPeriods[i].week = newPeriod.week
  IN [i \in 1..Len(mergedPeriods) |-> Replaced(i)] \o SelectSeq(SubSeq(periods, 1, n), IsNew)

\* The forEach of handleDataUploaded over the first n new periods: a period
\* whose year and week some element of mergedPeriods has is skipped.
RECURSIVE MergeLoop(_, _, _)
MergeLoop(mergedPeriods, periods, n) ==
  IF n = 0 THEN mergedPeriods
  ELSE LET before    == MergeLoop(mergedPeriods, periods, n - 1)
           newPeriod == periods[n]
           exists    == \E i \in 1..Len(before) : /\ before[i].year = newPeriod.year
                                                  /\ before[i].week = newPeriod.week
       IN IF ~exists THEN Append(before, newPeriod) ELSE before

\* handleDataUploaded as created by a render of App with the state `current`:
\* the value it passes to setUploadedPeriods. The comparator (difference of
\* the years, then of the weeks) orders as the key year * 100 + week does for
\* weeks below 100.
handleDataUploaded(current, periods) ==
  LET mergedPeriods == MergeLoop(current, periods, Len(periods))
  IN SortByKeys(mergedPeriods,
                [i \in 1..Len(mergedPeriods) |->
                   mergedPeriods[i].year * 100 + mergedPeriods[i].week])

\* processUploadedFile: the result of parseWeeklyCSV on the content of the
\* file, with the name of the file; when the FileReader fails, readFileAsText
\* rejects and the catch returns a failure.
processUploadedFile(file, readError) ==
  IF readError THEN [success |-> FALSE, dataset |-> Null, filename |-> file.name]
  ELSE LET result == parseWeeklyCSV(file.rows)
       IN [success |-> result.success, dataset |-> result.dataset, filename |-> file.name]

processMultipleFiles(files, readErrors) ==
  [i \in 1..Len(files) |-> processUploadedFile(files[i], readErrors[i])]

\* periodsData of handleUpload: one entry per successful result, from the
\* first row of its dataset
periodsData(successfulResults) ==
  [i \in 1..Len(successfulResults) |->
     LET result   == successfulResults[i]
         firstRow == result.dataset[1]
     IN [year |-> firstRow.period.year,
         week |-> firstRow.period.week,
         startDate |-> firstRow.period.startDate,
         endDate |-> firstRow.period.endDate,
         data |-> result.dataset,
         month |-> getMonthNumber(firstRow.period),
         filename |-> result.filename]]

(***************************************************************************)
(* metric_categorizer                                                      *)
(***************************************************************************)
Undefined == "undefined"

METRIC_DEFINITIONS ==
  [reach |->
     [key |-> "reach", displayName |-> "Rackvidd", category |-> "non_summable",
      canSum |-> FALSE, aggregationMethod |-> "average", unit |-> "personer",
      formatType |-> "number",
      warningMessage |-> "Reach kan ALDRIG summeras over veckor. Anvand genomsnitt."],
   engagements |->
     [key |-> "engagements", displayName |-> "Engagemang", category |-> "summable",
      canSum |-> TRUE, aggregationMethod |-> "sum", unit |-> "interaktioner",
      formatType |-> "number", warningMessage |-> Null],
   status |->
     [key |-> "status", displayName |-> "Status", category |-> "metadata",
      canSum |-> FALSE, aggregationMethod |-> "none", unit |-> Null,
      formatType |-> "string", warningMessage |-> Null],
   comment |->
     [key |-> "comment", displayName |-> "Kommentar", category |-> "metadata",
      canSum |-> FALSE, aggregationMethod |-> "none", unit |-> Null,
      formatType |-> "string", warningMessage |-> Null]]

\* The names every object inherits from Object.prototype: looking one up in
\* METRIC_DEFINITIONS yields a function, every property of which is undefined.
InheritedKeys == {"toString"}

\* METRIC_DEFINITIONS[metricKey]: a definition, an inherited member (truthy)
\* or undefined (falsy).
LookupMetric(metricKey) ==
  IF metricKey \in DOMAIN METRIC_DEFINITIONS
  THEN [kind |-> "definition", def |-> METRIC_DEFINITIONS[metricKey]]
  ELSE IF metricKey \in InheritedKeys
       THEN [kind |-> "inherited",
             def |-> [displayName |-> Undefined, aggregationMethod |-> Undefined,
                      warningMessage |-> Undefined]]
       ELSE [kind |-> Undefined]

\* A JavaScript boolean as returned to the caller, who may get undefined instead.
JsBool(b) == IF b THEN "true" ELSE "false"

canSumMetric(metricKey) ==
  LET metric == LookupMetric(metricKey)
  IN IF metric.kind = "definition" THEN JsBool(metric.def.canSum)
     ELSE IF metric.kind = "inherited" THEN Undefined
     ELSE JsBool(FALSE)

getAggregationMethod(metricKey) ==
  LET metric == LookupMetric(metricKey)
  IN IF metric.kind # Undefined THEN metric.def.aggregationMethod ELSE "none"

\* for (const key in METRIC_DEFINITIONS): the own keys in the order they are
\* written; Object.prototype has no enumerable member.
getMetricOptions(includeMetadata) ==
  LET keys    == <<"reach", "engagements", "status", "comment">>
      Offered(key) == includeMetadata \/ METRIC_DEFINITIONS[key].category # "metadata"
      offered == SelectSeq(keys, Offered)
  IN [i \in 1..Len(offered) |->
        LET metric == METRIC_DEFINITIONS[offered[i]]
        IN [key |-> metric.key, category |-> metric.category,
            canSum |-> metric.canSum, label |-> metric.displayName]]

\* TrendAnalysisView: the metrics of its radio buttons
ALLOWED_METRICS ==
  <<[key |-> "reach", canSum |-> FALSE, label |-> "Rackvidd"],
    [key |-> "engagements", canSum |-> TRUE, label |-> "Engagemang"]>>

WrongMethodMessage(metric, correctMethod, attemptedMethod) ==
  [text |-> "Felaktig aggregeringsmetod", for |-> metric.def.displayName,
   use |-> correctMethod, insteadOf |-> attemptedMethod,
   warning |-> metric.def.warningMessage]

validateAggregationMethodNoLookupGuard(metricKey, attemptedMethod) ==
  LET metric == LookupMetric(metricKey)
  IN IF metric.kind = Undefined THEN Throws(TypeError)
     ELSE IF attemptedMethod # metric.def.aggregationMethod
          THEN [isValid |-> FALSE,
                errorMessage |->
                  WrongMethodMessage(metric, metric.def.aggregationMethod, attemptedMethod)]
          ELSE [isValid |-> TRUE, errorMessage |-> Null]

\* errorMessage is the message's template with the values it interpolates.
validateAggregationMethod(metricKey, attemptedMethod) ==
  LET metric == LookupMetric(metricKey)
  IN IF metric.kind = Undefined
     THEN [isValid |-> FALSE,
           errorMessage |-> [text |-> "Okand metric", key |-> metricKey]]
     ELSE LET correctMethod == metric.def.aggregationMethod
          IN IF attemptedMethod # correctMethod
             THEN [isValid |-> FALSE,
                   errorMessage |->
                     WrongMethodMessage(metric, correctMethod, attemptedMethod)]
             ELSE [isValid |-> TRUE, errorMessage |-> Null]

(***************************************************************************)
(* Inputs                                                                  *)
(***************************************************************************)
P1 == Page("P1", "Page 1")
P2 == Page("P2", "Page 2")

W2025_41 == WeekPeriod(2025, 41, <<2025, 10, 6>>, <<2025, 10, 12>>)

ReachValues == (0..MaxSmall) \cup {100000, 120000}

ReachPool == {WeeklyPageData(P1, W2025_41, WeeklyMetrics(r, 0), "OK", Null) : r \in ReachValues}

(***************************************************************************)
(* The calls                                                               *)
(***************************************************************************)
Returns(name, a, r, looked) ==
  /\ call' = name
  /\ args' = a
  /\ ret' = r
  /\ consulted' = looked
  /\ UNCHANGED <<records, app>>

\* A call that leaves the array of the caller as `array`
Leaves(name, a, r, looked, array) ==
  /\ call' = name
  /\ args' = a
  /\ ret' = r
  /\ consulted' = looked
  /\ records' = array
  /\ UNCHANGED app

NoArgs == <<>>

CalculateAverageReach ==
  LET v == MetricValues(records, "reach")
  IN Returns("calculateAverageReach", [reachValues |-> v], calculateAverageReach(v), {})

FindReachRange ==
  LET v == MetricValues(records, "reach")
  IN Returns("findReachRange", [reachValues |-> v], findReachRange(v), {})

CalculateAverageReachFromData ==
  Returns("calculateAverageReachFromData", NoArgs,
          calculateAverageReachFromData(records), {})

\* null as the value of uploadResults, among the objects it is set to
NoResults == [kind |-> "null"]

\* No run of handleUpload is in progress
Idle == [selectedFiles |-> <<>>, pc |-> "idle", onDataUploaded |-> <<>>]

\* Before the first call: useState([]), useState([]), useState(false), useState(null)
InitCall ==
  /\ call = "none"
  /\ args = NoArgs
  /\ ret = Null
  /\ consulted = {}
  /\ uploadedPeriods = <<>>
  /\ selectedFiles = <<>>
  /\ uploading = FALSE
  /\ uploadResults = NoResults
  /\ upload = Idle

InitReach == records \in SeqsUpTo(ReachPool, MaxSeries) /\ InitCall

NextReach ==
  \/ CalculateAverageReach
  \/ FindReachRange
  \/ CalculateAverageReachFromData

SpecReach == InitReach /\ [][NextReach]_vars

\* Inputs of the functions of numbers and of metric keys
ChangeValues == (0..MaxChange) \cup {80, 103, 100000, 120000}

MetricKeys == (DOMAIN METRIC_DEFINITIONS) \cup InheritedKeys \cup {"likes"}

AttemptedMethods == {"sum", "average", "none", "median"}

CalculateWeekOverWeekChange ==
  \E currentValue \in ChangeValues, previousValue \in ChangeValues :
    Returns("calculateWeekOverWeekChange",
            [currentValue |-> currentValue, previousValue |-> previousValue],
            calculateWeekOverWeekChange(currentValue, previousValue), {})

ValidateAggregationMethod ==
  \E metricKey \in MetricKeys, attemptedMethod \in AttemptedMethods :
    Returns("validateAggregationMethod",
            [metricKey |-> metricKey, attemptedMethod |-> attemptedMethod],
            validateAggregationMethod(metricKey, attemptedMethod), {metricKey})

GetAggregationMethod ==
  \E metricKey \in MetricKeys :
    Returns("getAggregationMethod", [metricKey |-> metricKey],
            getAggregationMethod(metricKey), {metricKey})

CanSumMetric ==
  \E metricKey \in MetricKeys :
    Returns("canSumMetric", [metricKey |-> metricKey],
            canSumMetric(metricKey), {metricKey})

GetMetricOptions ==
  \E includeMetadata \in BOOLEAN :
    Returns("getMetricOptions", [includeMetadata |-> includeMetadata],
            getMetricOptions(includeMetadata), DOMAIN METRIC_DEFINITIONS)

\* The trend view renders one radio button per entry of ALLOWED_METRICS
TrendAnalysisView ==
  Returns("TrendAnalysisView", NoArgs, ALLOWED_METRICS, {})

\* File names, among them week_41.csv, WEEK-7.CSV, week07.csv and week53.csv
FileNames ==
  LET week == <<"w", "e", "e", "k">>
      csv  == <<".", "c", "s", "v">>
  IN {week \o <<"_", "4", "1">> \o csv,
      <<"W", "E", "E", "K", "-", "7", ".", "C", "S", "V">>,
      week \o <<"0", "7">> \o csv,
      week \o <<"5", "3">> \o csv,
      week \o <<"_", "0">> \o csv,
      week \o <<"_", "5", "4">> \o csv,
      week \o <<"_", "1", "2", "3">> \o csv,
      week \o <<"_", "4", "a">> \o csv,
      week \o <<"_", "_", "4">> \o csv,
      week \o <<"_", "4", "1">>,
      week \o <<"_", "4", "1", ".", "t", "x", "t">>,
      <<"m", "y">> \o week \o <<"_", "4", "1">> \o csv,
      week \o week \o <<"4", "1">>,
      <<"d", "a", "t", "a">> \o csv,
      week \o <<"_", "4", "1">> \o csv \o csv}

ValidateFile ==
  \E name \in FileNames, size \in {0, 100, 5 * 1024 * 1024 + 1},
     type \in {"", "text/csv", "application/pdf"},
     existingPeriods \in {<<>>, <<[week |-> 41]>>, <<[week |-> 7], [week |-> 53]>>} :
    LET file == [size |-> size, type |-> type, name |-> name]
    IN Returns("validateFile", [file |-> file, existingPeriods |-> existingPeriods],
               validateFile(file, existingPeriods), {})

\* calculateAverageTrend on values in time order: from 100, 105 and 95 are a
\* change of exactly 5 %, and from 2001, 2102 and 1900 one of 5.0475 %.
CalculateAverageTrendOfValues ==
  \E values \in SeqsUpTo({0, 95, 100, 105, 1900, 2001, 2102}, MaxRecords) :
    Returns("calculateAverageTrend", [values |-> values],
            calculateAverageTrend(values), {})

\* A reach value below, on and above ten million, for no, one and several weeks
DetectIncorrectReachSum ==
  \E suspectedSum \in {-1, 0, 9999999, 10000000, 10000001, 20000000},
     weekCount \in {-1, 0, 1, 2, 52} :
    Returns("detectIncorrectReachSum", <<suspectedSum, weekCount>>,
            detectIncorrectReachSum(suspectedSum, weekCount), {})

InitScalar == records = <<>> /\ InitCall

NextScalar ==
  \/ CalculateWeekOverWeekChange
  \/ ValidateAggregationMethod
  \/ GetAggregationMethod
  \/ CanSumMetric
  \/ GetMetricOptions
  \/ TrendAnalysisView
  \/ ValidateFile
  \/ CalculateAverageTrendOfValues
  \/ DetectIncorrectReachSum

SpecScalar == InitScalar /\ [][NextScalar]_vars


\* One page's history: the week of a record is fixed by its position (not in
\* chronological order), its reach is drawn freely and its engagements fall as
\* its reach rises.
W2025_9  == WeekPeriod(2025, 9, <<2025, 2, 24>>, <<2025, 3, 2>>)
W2025_42 == WeekPeriod(2025, 42, <<2025, 10, 13>>, <<2025, 10, 19>>)
W2025_45 == WeekPeriod(2025, 45, <<2025, 11, 3>>, <<2025, 11, 9>>)
W2026_1  == WeekPeriod(2026, 1, <<2025, 12, 29>>, <<2026, 1, 4>>)
W2026_2  == WeekPeriod(2026, 2, <<2026, 1, 5>>, <<2026, 1, 11>>)

SeriesWeeks == <<W2025_41, W2025_9, W2026_1, W2025_42, W2025_45, W2026_2>>

SeriesRecord(i, reach) ==
  WeeklyPageData(P1, SeriesWeeks[((i - 1) % Len(SeriesWeeks)) + 1],
                 WeeklyMetrics(reach, 10 * (MaxSmall + 1 - reach)), "OK", Null)

NumericMetrics == {"reach", "engagements"}

CalculateMetricStatistics ==
  \E metric \in NumericMetrics :
    Returns("calculateMetricStatistics", [metric |-> metric],
            calculateMetricStatistics(records, metric), {})

ComparePeriods ==
  \E k \in 0..Len(records) :
    LET period1Data == SubSeq(records, 1, k)
        period2Data == SubSeq(records, k + 1, Len(records))
    IN Returns("comparePeriods",
               [period1Data |-> period1Data, period2Data |-> period2Data],
               comparePeriods(period1Data, period2Data), {})

\* generatePageSummary sorts within its call of calculateWeekToWeekTrend
GeneratePageSummary ==
  Leaves("generatePageSummary", NoArgs, generatePageSummary(records), {},
         ArgumentAfterSortOfCopy(records, SortByStartDate(records)))

InitAnalytics ==
  /\ \E reach \in SeqsUpTo(0..MaxSmall, MaxSeries) :
       records = [i \in 1..Len(reach) |-> SeriesRecord(i, reach[i])]
  /\ InitCall

NextStatistics == CalculateMetricStatistics

SpecStatistics == InitAnalytics /\ [][NextStatistics]_vars

NextAnalytics ==
  \/ ComparePeriods
  \/ GeneratePageSummary

SpecAnalytics == InitAnalytics /\ [][NextAnalytics]_vars

\* Records of several pages and weeks. A page id is a Facebook page id, never
\* the name of a member of Object.prototype. The metrics of a record follow
\* from its page and week, so that the members of a group differ.
Pages == <<P1, P2>>

GroupingWeeks == <<W2025_9, W2025_41, W2025_45, W2026_1>>

GroupingRecord(p, w) ==
  WeeklyPageData(Pages[p], GroupingWeeks[w],
                 WeeklyMetrics(100000 + 20001 * (p - 1) + GroupingWeeks[w].week,
                               500 + 200 * (p - 1) + GroupingWeeks[w].week),
                 "OK", Null)

GroupingPool ==
  {GroupingRecord(p, w) : p \in 1..Len(Pages), w \in 1..Len(GroupingWeeks)}

AggregateByPage ==
  Returns("aggregateByPage", NoArgs, aggregateByPage(records), {})

AggregateByMonth ==
  Returns("aggregateByMonth", NoArgs, aggregateByMonth(records), {})

AggregateByWeek ==
  Returns("aggregateByWeek", NoArgs, aggregateByWeek(records), {})

AggregateByQuarter ==
  Returns("aggregateByQuarter", NoArgs, aggregateByQuarter(records), {})

InitGrouping == records \in SeqsUpTo(GroupingPool, MaxRecords) /\ InitCall

NextGrouping ==
  \/ AggregateByPage
  \/ AggregateByMonth
  \/ AggregateByWeek
  \/ AggregateByQuarter

SpecGrouping == InitGrouping /\ [][NextGrouping]_vars

SumEngagements ==
  Returns("sumEngagements", NoArgs, sumEngagements(records), {})

CalculateTotalReach ==
  Returns("calculateTotalReach", NoArgs, calculateTotalReach(records), {})

CreateSummary ==
  Returns("createSummary", NoArgs, createSummary(records), {})

AggregatePageTimeseries ==
  Leaves("aggregatePageTimeseries", NoArgs, aggregatePageTimeseries(records), {},
         ArgumentAfterSortOfCopy(records, SortByStartDate(records)))

NextSummary ==
  \/ SumEngagements
  \/ CalculateTotalReach
  \/ CreateSummary
  \/ AggregatePageTimeseries

SpecSummary == InitGrouping /\ [][NextSummary]_vars

\* Records for the pivot table and the ranking: the same page and week can
\* occur with different metrics, and different records can hold the same value.
PivotWeeks == {W2025_9, W2025_41, W2026_1}

PivotMetrics == {WeeklyMetrics(100000, 500), WeeklyMetrics(120000, 700)}

PivotPool ==
  {WeeklyPageData(page, period, metrics, "OK", Null) :
     page \in Range(Pages), period \in PivotWeeks, metrics \in PivotMetrics}

CreatePivotTable ==
  \E metric \in NumericMetrics :
    Returns("createPivotTable", [metric |-> metric],
            createPivotTable(records, metric), {})

RankPagesByMetric ==
  \E metric \in NumericMetrics :
    Returns("rankPagesByMetric", [metric |-> metric],
            rankPagesByMetric(records, metric), {})

InitPivot == records \in SeqsUpTo(PivotPool, MaxRecords) /\ InitCall

NextPivot ==
  \/ CreatePivotTable
  \/ RankPagesByMetric

SpecPivot == InitPivot /\ [][NextPivot]_vars

\* Two pages' histories for findConsistentGrowth: the week of a record is fixed
\* by its position (not in chronological order); reach falls as engagements rise.
GrowthValues == {10, 20, 25, 30}

GrowthRecord(page, i, engagements) ==
  WeeklyPageData(page, SeriesWeeks[((i - 1) % Len(SeriesWeeks)) + 1],
                 WeeklyMetrics(40 - engagements, engagements), "OK", Null)

DataForPage(weeklyDataArray, pageId) ==
  LET IsOfPage(data) == data.page.pageId = pageId
  IN SelectSeq(weeklyDataArray, IsOfPage)

FindConsistentGrowth ==
  \E pageOrder \in {<<"P1", "P2">>, <<"P2", "P1">>}, metric \in NumericMetrics,
     minWeeks \in 1..2 :
    LET dataByPage == [i \in 1..2 |-> DataForPage(records, pageOrder[i])]
        \* the arrays of dataByPage after the call: one is sorted only when it
        \* has at least minWeeks + 1 records
        afterwards == [i \in 1..2 |->
                         IF Len(dataByPage[i]) < minWeeks + 1 THEN dataByPage[i]
                         ELSE ArgumentAfterSortOfCopy(dataByPage[i],
                                                      SortByStartDate(dataByPage[i]))]
    IN Returns("findConsistentGrowth",
               [pageIds |-> pageOrder, dataByPage |-> afterwards,
                metric |-> metric, minWeeks |-> minWeeks],
               findConsistentGrowth(dataByPage, metric, minWeeks), {})

InitGrowth ==
  /\ \E first \in SeqsUpTo(GrowthValues, MaxSeries), second \in SeqsUpTo({10, 20}, 2) :
       records = [i \in 1..Len(first) |-> GrowthRecord(P1, i, first[i])]
                   \o [i \in 1..Len(second) |-> GrowthRecord(P2, i, second[i])]
  /\ InitCall

NextGrowth == FindConsistentGrowth

SpecGrowth == InitGrowth /\ [][NextGrowth]_vars

\* The calls that sort, on one page's short history.
CalculateWeekToWeekTrend ==
  Leaves("calculateWeekToWeekTrend", NoArgs, calculateWeekToWeekTrend(records), {},
         ArgumentAfterSortOfCopy(records, SortByStartDate(records)))

\* The {week, reach} objects of the records
WeeklyReach(weeklyDataArray) ==
  [i \in 1..Len(weeklyDataArray) |->
     [week |-> weeklyDataArray[i].period.week, reach |-> weeklyDataArray[i].metrics.reach]]

AnalyzeReachTrend ==
  LET weeklyData == WeeklyReach(records)
      sorted     == SortByKeys(weeklyData, [i \in 1..Len(weeklyData) |-> weeklyData[i].week])
  IN Returns("analyzeReachTrend",
             [weeklyData |-> ArgumentAfterSortOfCopy(weeklyData, sorted)],
             analyzeReachTrend(weeklyData), {})

AggregateForWeekComparison ==
  \E period \in {W2025_41, W2025_9} :
    Returns("aggregateForWeekComparison", [year |-> period.year, week |-> period.week],
            aggregateForWeekComparison(records, period.year, period.week), {})

CalculateEngagementDistribution ==
  Returns("calculateEngagementDistribution", NoArgs,
          calculateEngagementDistribution(records), {})

FindBestAndWorstWeek ==
  \E metric \in NumericMetrics :
    Returns("findBestAndWorstWeek", [metric |-> metric],
            findBestAndWorstWeek(records, metric), {})

CalculateVolatility ==
  \E metric \in NumericMetrics :
    Returns("calculateVolatility", [metric |-> metric],
            calculateVolatility(records, metric), {})

InitFrame ==
  /\ \E reach \in SeqsUpTo({0, 1, MaxSmall}, MaxRecords) :
       records = [i \in 1..Len(reach) |-> SeriesRecord(i, reach[i])]
  /\ InitCall

NextFrame ==
  \/ CalculateWeekToWeekTrend
  \/ FindConsistentGrowth
  \/ AggregatePageTimeseries
  \/ CalculateMetricStatistics
  \/ RankPagesByMetric
  \/ AggregateForWeekComparison
  \/ CalculateEngagementDistribution
  \/ AnalyzeReachTrend

SpecFrame == InitFrame /\ [][NextFrame]_vars

\* The pages of one week, as the distribution view passes them: shares of a
\* total of 80 or 103 fall on and off the middle between two tenths.
DistributionRecord(p, engagements) ==
  WeeklyPageData(Pages[p], W2025_41, WeeklyMetrics(1000, engagements), "OK", Null)

InitDistribution ==
  /\ records \in SeqsUpTo({DistributionRecord(p, e) : p \in 1..Len(Pages), e \in {0, 23, 57}},
                          MaxRecords)
  /\ InitCall

NextDistribution == CalculateEngagementDistribution

SpecDistribution == InitDistribution /\ [][NextDistribution]_vars

CalculateAverageTrend ==
  \E metric \in NumericMetrics :
    LET values == MetricValues(records, metric)
    IN Returns("calculateAverageTrend", [values |-> values],
               calculateAverageTrend(values), {})

\* The analytics, reach and aggregation functions on the records of one page,
\* from no record to MaxRecords records
NextTotal ==
  \/ CalculateAverageReach
  \/ FindReachRange
  \/ CalculateAverageReachFromData
  \/ CalculateAverageTrend
  \/ FindBestAndWorstWeek
  \/ CalculateMetricStatistics
  \/ CalculateVolatility
  \/ GeneratePageSummary
  \/ AggregateByPage
  \/ AggregateByMonth
  \/ AggregateByWeek
  \/ AggregateByQuarter
  \/ SumEngagements
  \/ CalculateTotalReach
  \/ CreateSummary

SpecTotal == InitFrame /\ [][NextTotal]_vars

\* The row P1, Page 1, 2025, 41, 2025-10-06, 2025-10-12, 1000, 50, OK, (empty)
CsvRow ==
  [page_id |-> [kind |-> "string", text |-> "P1"],
   page_name |-> [kind |-> "string", text |-> "Page 1"],
   year |-> [kind |-> "number", tenths |-> 20250],
   week |-> [kind |-> "number", tenths |-> 410],
   start_date |-> <<2025, 10, 6>>, end_date |-> <<2025, 10, 12>>,
   reach |-> [kind |-> "number", tenths |-> 10000],
   engagements |-> [kind |-> "number", tenths |-> 500],
   status |-> [kind |-> "string", text |-> "OK"],
   comment |-> [kind |-> "null"]]

\* The row and the rows that differ from it in one field
CsvRows ==
  {CsvRow}
    \cup {[CsvRow EXCEPT !.page_id = [kind |-> "null"]],
          [CsvRow EXCEPT !.page_name = [kind |-> "null"]],
          [CsvRow EXCEPT !.status = [kind |-> "null"]]}
    \cup {[CsvRow EXCEPT !.year = y] :
            y \in {[kind |-> "null"], [kind |-> "number", tenths |-> 19990],
                   [kind |-> "number", tenths |-> 21010]}}
    \cup {[CsvRow EXCEPT !.week = w] :
            w \in {[kind |-> "number", tenths |-> 0], [kind |-> "number", tenths |-> 530],
                   [kind |-> "number", tenths |-> 540]}}
    \cup {[CsvRow EXCEPT !.reach = r] :
            r \in {[kind |-> "null"], [kind |-> "number", tenths |-> 0 - 50],
                   [kind |-> "number", tenths |-> 127],
                   [kind |-> "string", text |-> <<"7", "x">>],
                   [kind |-> "string", text |-> <<"n", "/", "a">>]}}

ParseWeeklyCSV ==
  Returns("parseWeeklyCSV", NoArgs, parseWeeklyCSV(records), {})

\* records holds the rows of the file
InitCsv == records \in SeqsUpTo(CsvRows, MaxRecords) /\ InitCall

NextCsv == ParseWeeklyCSV

SpecCsv == InitCsv /\ [][NextCsv]_vars

AddData ==
  /\ Len(records) < MaxRecords
  /\ \E weeklyData \in {GroupingRecord(1, 1)}
                          \cup {GroupingRecord(p, w) : p \in 1..Len(Pages), w \in 3..4} :
       Leaves("addData", [weeklyData |-> weeklyData], Undefined, {},
              addData(records, weeklyData))

\* The Map keeps the first page of each pageId, in the order of first appearance
GetUniquePages ==
  LET first == {i \in 1..Len(records) :
                  \A j \in 1..(i - 1) : records[j].page.pageId # records[i].page.pageId}
      value(k) == CHOOSE i \in first : Cardinality({j \in first : j < i}) = k - 1
  IN Leaves("getUniquePages", NoArgs,
            [k \in 1..Cardinality(first) |-> records[value(k)].page], {}, records)

\* The Map keeps the first period of each period key; the array made of its
\* values is sorted by year, then by week.
GetUniquePeriods ==
  LET first == {i \in 1..Len(records) :
                  \A j \in 1..(i - 1) :
                    getPeriodKey(records[j].period) # getPeriodKey(records[i].period)}
      value(k) == CHOOSE i \in first : Cardinality({j \in first : j < i}) = k - 1
      values == [k \in 1..Cardinality(first) |-> records[value(k)].period]
      Before(a, b) == IF a.year # b.year THEN a.year - b.year < 0 ELSE a.week - b.week < 0
      keys == [k \in 1..Len(values) |->
                 Cardinality({j \in 1..Len(values) : Before(values[j], values[k])})]
  IN Leaves("getUniquePeriods", NoArgs, SortByKeys(values, keys), {}, records)

GetDataForPage ==
  \E pageId \in {P1.pageId, "P3"} :
    LET Test(item) == item.page.pageId = pageId
    IN Leaves("getDataForPage", [pageId |-> pageId], SelectSeq(records, Test), {}, records)

GetDataForPeriod ==
  \E year \in {2025, 2026}, week \in {1, 45} :
    LET Test(item) == item.period.year = year /\ item.period.week = week
    IN Leaves("getDataForPeriod", [year |-> year, week |-> week],
              SelectSeq(records, Test), {}, records)

Size ==
  Leaves("size", NoArgs, Len(records), {}, records)

NextDataset ==
  \/ AddData
  \/ GetUniquePages
  \/ GetUniquePeriods
  \/ GetDataForPage
  \/ GetDataForPeriod
  \/ Size

\* new WeeklyDataset(): data = []
SpecDataset == InitScalar /\ [][NextDataset]_vars

\* The files a user can pick: week_41.csv with the row of week 41 of 2025,
\* week_52.csv with a row of week 52 of 2024, week_43.csv whose row is of week
\* 41 of 2025 again with another reach, and data.csv, whose name is not valid.
UploadFiles ==
  LET File(name, rows) == [rows |-> rows, size |-> 100, type |-> "text/csv", name |-> name]
      week == <<"w", "e", "e", "k", "_">>
      csv  == <<".", "c", "s", "v">>
  IN {File(week \o <<"4", "1">> \o csv, <<CsvRow>>),
      File(week \o <<"5", "2">> \o csv,
           <<[CsvRow EXCEPT !.year = [kind |-> "number", tenths |-> 20240],
                            !.week = [kind |-> "number", tenths |-> 520],
                            !.start_date = <<2024, 12, 23>>,
                            !.end_date = <<2024, 12, 29>>]>>),
      File(week \o <<"4", "3">> \o csv,
           <<[CsvRow EXCEPT !.reach = [kind |-> "number", tenths |-> 20000]]>>),
      File(<<"d", "a", "t", "a">> \o csv, <<CsvRow>>)}

\* A FileList of up to MaxFiles different files
FileLists ==
  {files \in SeqsUpTo(UploadFiles, MaxFiles) :
     \A i, j \in 1..Len(files) : files[i] = files[j] => i = j}

\* What a handler of WeeklyUploader leaves for the observer: its name and the
\* calls of onDataUploaded it made, each as the periods it passed
Handled(name, calls) ==
  /\ call' = name
  /\ args' = NoArgs
  /\ ret' = calls
  /\ UNCHANGED <<records, consulted>>

\* handleDrop and handleChange pass a FileList that is not empty
HandleFileSelect ==
  \E files \in FileLists \ {<<>>} :
    /\ selectedFiles' = files
    /\ uploadResults' = NoResults
    /\ UNCHANGED <<uploadedPeriods, uploading, upload>>
    /\ Handled("handleFileSelect", <<>>)

\* removeFile(index) of the current render; index counts from 0 in the source
RemoveFile ==
  \E index \in 1..Len(selectedFiles) :
    /\ selectedFiles' = [i \in 1..(Len(selectedFiles) - 1) |->
                           IF i < index THEN selectedFiles[i] ELSE selectedFiles[i + 1]]
    /\ UNCHANGED <<uploadedPeriods, uploading, uploadResults, upload>>
    /\ Handled("removeFile", <<>>)

\* handleUpload up to its first await. The button that calls it is disabled
\* while uploading; the handler keeps the selectedFiles and the onDataUploaded
\* of the render that created it.
HandleUpload ==
  /\ IF Len(selectedFiles) = 0
     THEN UNCHANGED app
     ELSE /\ ~uploading
          /\ uploading' = TRUE
          /\ uploadResults' = NoResults
          /\ upload' = [selectedFiles |-> selectedFiles, pc |-> "validating",
                        onDataUploaded |-> uploadedPeriods]
          /\ UNCHANGED <<uploadedPeriods, selectedFiles>>
  /\ Handled("handleUpload", <<>>)

CaughtWithoutFinally ==
  /\ uploadResults' = [success |-> FALSE, message |-> "Fel vid uppladdning"]
  /\ upload' = Idle
  /\ UNCHANGED <<uploadedPeriods, selectedFiles, uploading>>

\* The catch and the finally of handleUpload
Caught ==
  /\ uploadResults' = [success |-> FALSE, message |-> "Fel vid uppladdning"]
  /\ uploading' = FALSE
  /\ upload' = Idle
  /\ UNCHANGED <<uploadedPeriods, selectedFiles>>

HandleUploadValidatedIgnoringErrors ==
  /\ upload.pc = "validating"
  /\ upload' = [upload EXCEPT !.pc = "processing"]
  /\ UNCHANGED <<uploadedPeriods, selectedFiles, uploading, uploadResults>>
  /\ Handled("handleUpload", <<>>)

\* handleUpload from the await of the validations to the await of the
\* processing. The catch takes whatever the try block throws: the first
\* disjunct is the await throwing.
HandleUploadValidated ==
  /\ upload.pc = "validating"
  /\ \/ Caught
     \/   LET validations == [i \in 1..Len(upload.selectedFiles) |->
                                  validateFile(upload.selectedFiles[i], <<>>)]
                hasErrors   == \E i \in 1..Len(validations) : ~validations[i].isValid
            IN IF hasErrors
               THEN /\ uploadResults' = [success |-> FALSE,
                                         message |-> "Vissa filer har valideringsfel"]
                    /\ uploading' = FALSE
                    /\ upload' = Idle
                    /\ UNCHANGED <<uploadedPeriods, selectedFiles>>
               ELSE /\ upload' = [upload EXCEPT !.pc = "processing"]
                    /\ UNCHANGED <<uploadedPeriods, selectedFiles, uploading, uploadResults>>
  /\ Handled("handleUpload", <<>>)

\* handleUpload from the await of processMultipleFiles to its end
HandleUploadProcessed ==
  /\ upload.pc = "processing"
  /\ \/ Caught /\ Handled("handleUpload", <<>>)
     \/ \E readErrors \in [1..Len(upload.selectedFiles) -> BOOLEAN] :
            LET results           == processMultipleFiles(upload.selectedFiles, readErrors)
                Succeeded(r)      == r.success
                Failed(r)         == ~r.success
                successfulResults == SelectSeq(results, Succeeded)
                failedResults     == SelectSeq(results, Failed)
            IN IF Len(successfulResults) = 0
               THEN /\ uploadResults' = [success |-> FALSE,
                                         message |-> "Kunde inte bearbeta nagra filer"]
                    /\ uploading' = FALSE
                    /\ upload' = Idle
                    /\ UNCHANGED <<uploadedPeriods, selectedFiles>>
                    /\ Handled("handleUpload", <<>>)
               ELSE /\ uploadedPeriods' =
                         handleDataUploaded(upload.onDataUploaded,
                                            periodsData(successfulResults))
                    /\ uploadResults' = [success |-> TRUE,
                                         message |-> "fil(er) uppladdade framgangsrikt!",
                                         successCount |-> Len(successfulResults),
                                         failedCount |-> Len(failedResults)]
                    /\ selectedFiles' = <<>>
                    /\ uploading' = FALSE
                    /\ upload' = Idle
                    /\ Handled("handleUpload", <<periodsData(successfulResults)>>)

NextApp ==
  \/ HandleFileSelect
  \/ RemoveFile
  \/ HandleUpload
  \/ HandleUploadValidated
  \/ HandleUploadProcessed

\* The components as mounted; ret holds the calls of onDataUploaded, none yet
InitApp ==
  /\ records = <<>>
  /\ call = "none"
  /\ args = NoArgs
  /\ ret = <<>>
  /\ consulted = {}
  /\ uploadedPeriods = <<>>
  /\ selectedFiles = <<>>
  /\ uploading = FALSE
  /\ uploadResults = NoResults
  /\ upload = Idle

SpecApp == InitApp /\ [][NextApp]_vars

\* The handler goes on from an await: HandleUploadValidated takes a run to the
\* processing or to its end, HandleUploadProcessed to its end, and no other
\* action changes upload while a run is in progress.
AwaitSettles ==
  /\ upload.pc # "idle"
  /\ upload' \in {[upload EXCEPT !.pc = "processing"], Idle}
  /\ upload' # upload

\* Every promise handleUpload awaits settles: validateFile returns from each of
\* its paths, the FileReader ends in onload or onerror and Papa.parse in
\* complete or error.
SpecAppSettling == SpecApp /\ WF_upload(AwaitSettles)

(***************************************************************************)
(* C1: calculateAverageReach(v) is 0 for the empty v and otherwise the     *)
(* integer nearest to sum(v)/len(v), a half rounded up:                    *)
(* r - 1/2 <= sum/len < r + 1/2; and [100000, 120000] gives 110000.        *)
(***************************************************************************)
C1_AverageReachIsRoundedMean ==
  call = "calculateAverageReach" =>
    LET v == args.reachValues
        n == Len(v)
    IN /\ n = 0 => ret = 0
       /\ n > 0 => /\ 2 * n * ret - n <= 2 * SumSeq(v)
                   /\ 2 * SumSeq(v) < 2 * n * ret + n
       /\ v = <<100000, 120000>> => ret = 110000

C1_Witness ==
  /\ call = "calculateAverageReach"
  /\ args.reachValues = <<1, 2>>
  /\ ret = 2

(***************************************************************************)
(* C2: for more than one value, all of them positive, calculateAverageReach*)
(* never returns their sum.                                                *)
(***************************************************************************)
C2_AverageReachIsNotSum ==
  (/\ call = "calculateAverageReach"
   /\ Len(args.reachValues) > 1
   /\ \A i \in 1..Len(args.reachValues) : args.reachValues[i] > 0)
  => ret # SumSeq(args.reachValues)

C2_Witness ==
  /\ call = "calculateAverageReach"
  /\ args.reachValues = <<100000, 120000>>
  /\ ret = 110000
  /\ ret # 220000

(***************************************************************************)
(* C5: validateAggregationMethod never throws; isValid is true, with a     *)
(* null errorMessage, exactly when the key is a registered metric and the  *)
(* attempted method is its registered aggregationMethod; otherwise isValid *)
(* is false and, for a registered key, the message names the registered    *)
(* method (('reach', 'sum') fails naming 'average').                       *)
(***************************************************************************)
C5_ValidateAggregationMethod ==
  call = "validateAggregationMethod" =>
    LET key        == args.metricKey
        registered == key \in DOMAIN METRIC_DEFINITIONS
    IN /\ ~HasThrown(ret)
       /\ ret.isValid \in BOOLEAN
       /\ ret.isValid <=>
            (registered /\ args.attemptedMethod = METRIC_DEFINITIONS[key].aggregationMethod)
       /\ ret.isValid => ret.errorMessage = Null
       /\ (~ret.isValid /\ registered) =>
            ret.errorMessage.use = METRIC_DEFINITIONS[key].aggregationMethod
       /\ (key = "reach" /\ args.attemptedMethod = "sum") =>
            (~ret.isValid /\ ret.errorMessage.use = "average")

C5_Witness ==
  /\ call = "validateAggregationMethod"
  /\ args = [metricKey |-> "reach", attemptedMethod |-> "sum"]
  /\ ~ret.isValid
  /\ ret.errorMessage.use = "average"

(***************************************************************************)
(* C7: calculateWeekOverWeekChange(current, previous) is 100 for previous  *)
(* = 0 < current, 0 for previous = current = 0, and otherwise the exact    *)
(* change in tenths of a percent, (current - previous) * 1000 / previous,  *)
(* rounded to the nearest tenth with a half rounded up; 0 for (x, x).      *)
(* In tenths t: t - 1/2 <= (current - previous) * 1000 / previous < t + 1/2*)
(***************************************************************************)
C7_WeekOverWeekChangeHalfUp ==
  call = "calculateWeekOverWeekChange" =>
    LET c == args.currentValue
        p == args.previousValue
    IN /\ (p = 0 /\ c > 0) => ret = 1000
       /\ (p = 0 /\ c = 0) => ret = 0
       /\ p # 0 => /\ (2 * ret - 1) * p <= 2000 * (c - p)
                   /\ 2000 * (c - p) < (2 * ret + 1) * p
       /\ (p # 0 /\ c = p) => ret = 0

\* The k-th smallest of the values, counted with repetitions.
OrderStatistic(values, k) ==
  CHOOSE v \in Range(values) :
    /\ Cardinality({i \in 1..Len(values) : values[i] < v}) < k
    /\ Cardinality({i \in 1..Len(values) : values[i] <= v}) >= k

(***************************************************************************)
(* C3, as stated: when generatePageSummary or comparePeriods is applied to *)
(* two or more records of positive reach, none of the numbers returned     *)
(* under reach is the sum of the records' reach values.                    *)
(***************************************************************************)
C3_NoReturnedReachFieldIsTheSum ==
  /\ (/\ call = "generatePageSummary"
      /\ Len(records) >= 2
      /\ \A i \in 1..Len(records) : records[i].metrics.reach > 0)
     => \A field \in {"min", "max", "average", "median", "total", "volatility"} :
          ret.reach[field] # SumSeq(MetricValues(records, "reach"))
  /\ (/\ call = "comparePeriods"
      /\ Len(args.period1Data) >= 2
      /\ \A i \in 1..Len(args.period1Data) : args.period1Data[i].metrics.reach > 0)
     => \A field \in {"min", "max", "average", "median", "total"} :
          ret.period1.reach[field] # SumSeq(MetricValues(args.period1Data, "reach"))

(***************************************************************************)
(* C8, as stated: the median of calculateMetricStatistics is the middle    *)
(* sorted value for an odd count and exactly (a + b) / 2 of the two middle *)
(* sorted values for an even count.                                        *)
(***************************************************************************)
C8_MedianIsExactMean ==
  (call = "calculateMetricStatistics" /\ Len(records) > 0) =>
    LET values == MetricValues(records, args.metric)
        n      == Len(values)
    IN IF n % 2 = 1
       THEN ret.median = OrderStatistic(values, n \div 2 + 1)
       ELSE 2 * ret.median = OrderStatistic(values, n \div 2)
                               + OrderStatistic(values, n \div 2 + 1)

(***************************************************************************)
(* C8, amended: for a non-empty record sequence the median is the middle   *)
(* sorted value for an odd count and, for an even count, the mean of the   *)
(* two middle sorted values rounded to the nearest integer, a half rounded *)
(* up; average is total/count rounded the same way, total is the sum of    *)
(* the values; [10,20,30] gives 20 and [10,20,30,40] gives 25.             *)
(***************************************************************************)
C8_MedianIsRoundedMean ==
  (call = "calculateMetricStatistics" /\ Len(records) > 0) =>
    LET values == MetricValues(records, args.metric)
        n      == Len(values)
        a      == OrderStatistic(values, n \div 2)
        b      == OrderStatistic(values, n \div 2 + 1)
    IN /\ n % 2 = 1 => ret.median = b
       /\ n % 2 = 0 => /\ 2 * ret.median - 1 <= a + b
                       /\ a + b < 2 * ret.median + 1
       /\ ret.total = SumSeq(values)
       /\ 2 * n * ret.average - n <= 2 * ret.total
       /\ 2 * ret.total < 2 * n * ret.average + n
       /\ values = <<10, 20, 30>> => ret.median = 20
       /\ values = <<10, 20, 30, 40>> => ret.median = 25

C8_Witness ==
  /\ call = "calculateMetricStatistics"
  /\ args.metric = "reach"
  /\ MetricValues(records, "reach") = <<2, 1>>
  /\ ret.median = 2
  /\ ret.average = 2
  /\ ret.total = 3

\* The number written by a string of decimal digits
RECURSIVE Decimal(_)
Decimal(chars) ==
  IF Len(chars) = 0 THEN 0
  ELSE 10 * Decimal(SubSeq(chars, 1, Len(chars) - 1)) + (CodeUnit(chars[Len(chars)]) - 48)

\* key is the key under which the aggregator named by the call groups the record
IsKeyOf(aggregator, key, data) ==
  CASE aggregator = "aggregateByPage" -> key = data.page.pageId
    [] aggregator = "aggregateByWeek" ->
         /\ Len(key) = 5 + (IF data.period.week < 10 THEN 1 ELSE 2)
         /\ Decimal(SubSeq(key, 1, 4)) = data.period.year
         /\ key[5] = "_"
         /\ Decimal(SubSeq(key, 6, Len(key))) = data.period.week
    [] aggregator = "aggregateByMonth" ->
         /\ Len(key) = 7
         /\ Decimal(SubSeq(key, 1, 4)) = data.period.year
         /\ key[5] = "_"
         /\ Decimal(SubSeq(key, 6, 7)) = data.period.startDate[2]
    [] aggregator = "aggregateByQuarter" ->
         /\ Len(key) = 7
         /\ Decimal(SubSeq(key, 1, 4)) = data.period.year
         /\ key[5] = "_" /\ key[6] = "Q"
         /\ Decimal(<<key[7]>>) \in 1..4
         /\ 3 * (Decimal(<<key[7]>>) - 1) < data.period.startDate[2]
         /\ data.period.startDate[2] <= 3 * Decimal(<<key[7]>>)

Aggregators == {"aggregateByPage", "aggregateByWeek", "aggregateByMonth", "aggregateByQuarter"}

(***************************************************************************)
(* C4: each of aggregateByPage, aggregateByWeek, aggregateByMonth and      *)
(* aggregateByQuarter returns a group under the key of every record (the   *)
(* page id, "{year}_{week}", "{year}_{MM}", "{year}_Q{n}" with n =         *)
(* ceil(month/3)) and under no other key; a group's totalEngagements is    *)
(* the sum of the engagements of the records of that key, its averageReach *)
(* is calculateAverageReach of their reach and its count is their number.  *)
(***************************************************************************)
C4_GroupsAggregateTheirMembers ==
  call \in Aggregators =>
    /\ \A i \in 1..Len(records) :
         \E key \in DOMAIN ret : IsKeyOf(call, key, records[i])
    /\ \A key \in DOMAIN ret :
         LET IsMember(data) == IsKeyOf(call, key, data)
             group == SelectSeq(records, IsMember)
             count == IF call = "aggregateByWeek" THEN "pageCount" ELSE "weekCount"
         IN /\ Len(group) > 0
            /\ ret[key].metrics.totalEngagements = SumSeq(MetricValues(group, "engagements"))
            /\ ret[key].metrics.averageReach =
                 calculateAverageReach(MetricValues(group, "reach"))
            /\ ret[key].metrics[count] = Len(group)

C4_Witness ==
  /\ call = "aggregateByQuarter"
  /\ records = <<GroupingRecord(1, 2), GroupingRecord(2, 3), GroupingRecord(1, 1)>>
  /\ DOMAIN ret = {<<"2", "0", "2", "5", "_", "Q", "4">>, <<"2", "0", "2", "5", "_", "Q", "1">>}
  /\ ret[<<"2", "0", "2", "5", "_", "Q", "4">>].metrics =
       [totalEngagements |-> 1286, averageReach |-> 110044, weekCount |-> 2]

(***************************************************************************)
(* C6, as stated: when an aggregator has combined the values of more than  *)
(* one record into a group, it has looked up reach and engagements in the  *)
(* metric registry during the call.                                        *)
(***************************************************************************)
C6_AggregatorsConsultTheRegistry ==
  (/\ call \in Aggregators
   /\ \E key \in DOMAIN ret :
        ret[key].metrics[IF call = "aggregateByWeek" THEN "pageCount" ELSE "weekCount"] > 1)
  => {"reach", "engagements"} \subseteq consulted

\* What rankPagesByMetric reports of a record
RankedEntry(data, metric) ==
  [page |-> data.page, value |-> data.metrics[metric], status |-> data.status]

(***************************************************************************)
(* C9: rankPagesByMetric returns one entry per record, the rank of the     *)
(* i-th entry is i, the values do not increase, and the entries of one     *)
(* value are the records of that value in their input order.               *)
(***************************************************************************)
C9_RanksDescendingAndStable ==
  call = "rankPagesByMetric" =>
    LET n       == Len(records)
        given   == [i \in 1..n |-> RankedEntry(records[i], args.metric)]
        ranked  == [i \in 1..Len(ret) |->
                      [page |-> ret[i].page, value |-> ret[i].value, status |-> ret[i].status]]
    IN /\ Len(ret) = n
       /\ \A i \in 1..n : ret[i].rank = i
       /\ \A i \in 1..n : \A j \in i..n : ret[i].value >= ret[j].value
       /\ \A v \in {given[i].value : i \in 1..n} :
            LET HasValue(entry) == entry.value = v
            IN SelectSeq(ranked, HasValue) = SelectSeq(given, HasValue)

C9_Witness ==
  /\ call = "rankPagesByMetric"
  /\ args.metric = "reach"
  /\ Len(records) = 3
  /\ records[1].page = P1 /\ records[2].page = P2 /\ records[3].page = P2
  /\ MetricValues(records, "reach") = <<100000, 120000, 100000>>
  /\ [i \in 1..3 |-> ret[i].page] = <<P2, P1, P2>>
  /\ [i \in 1..3 |-> ret[i].rank] = <<1, 2, 3>>

\* The cell of the pivot table for the page and week of a record
PivotCell(pivot, data) ==
  pivot.data[data.page.pageId].weeks[getPeriodKey(data.period)]

PivotAxesAreDistinctAndSorted ==
  /\ Range(ret.pages) = {records[i].page.pageId : i \in 1..Len(records)}
  /\ \A i, j \in 1..Len(ret.pages) : i # j => ret.pages[i] # ret.pages[j]
  /\ Range(ret.weeks) = {getPeriodKey(records[i].period) : i \in 1..Len(records)}
  /\ \A i \in 1..(Len(ret.weeks) - 1) : StringLess(ret.weeks[i], ret.weeks[i + 1])

(***************************************************************************)
(* C10, as stated: for every record of the input, the cell of the pivot    *)
(* table for its page and week holds the record's metric value; pages are  *)
(* the distinct page ids and weeks the distinct period keys in             *)
(* lexicographic order.                                                    *)
(***************************************************************************)
C10_PivotRoundTripEveryRecord ==
  call = "createPivotTable" =>
    /\ \A i \in 1..Len(records) :
         PivotCell(ret, records[i]) = records[i].metrics[args.metric]
    /\ PivotAxesAreDistinctAndSorted

(***************************************************************************)
(* C10, amended: the cell for the page and week of a record holds the      *)
(* metric value of the last input record of that page and week (so the     *)
(* record's own value when no later record has the same page and week);    *)
(* pages are the distinct page ids, each once, and weeks the distinct      *)
(* period keys in ascending order of their code units ("2025_41" before    *)
(* "2025_9").                                                              *)
(***************************************************************************)
C10_PivotHoldsLastRecord ==
  call = "createPivotTable" =>
    /\ \A i \in 1..Len(records) :
         LET same == {j \in 1..Len(records) :
                        /\ records[j].page.pageId = records[i].page.pageId
                        /\ records[j].period.year = records[i].period.year
                        /\ records[j].period.week = records[i].period.week}
         IN PivotCell(ret, records[i]) = records[Max(same)].metrics[args.metric]
    /\ PivotAxesAreDistinctAndSorted

C10_Witness ==
  /\ call = "createPivotTable"
  /\ args.metric = "reach"
  /\ Len(records) = 3
  /\ records[1].page = P1 /\ records[1].period = W2025_9 /\ records[1].metrics.reach = 100000
  /\ records[2].page = P1 /\ records[2].period = W2025_41
  /\ records[3].page = P1 /\ records[3].period = W2025_9 /\ records[3].metrics.reach = 120000
  /\ ret.weeks = <<getPeriodKey(W2025_41), getPeriodKey(W2025_9)>>
  /\ PivotCell(ret, records[1]) = 120000

\* The number of increases in the longest run of strictly increasing
\* consecutive values of a page's records in the order of their start dates
LongestGrowthRun(pageData, metric) ==
  LET values == MetricValues(SortByStartDate(pageData), metric)
  IN Max({d \in 0..(Len(values) - 1) :
            \E i \in 1..(Len(values) - d) :
              \A k \in i..(i + d - 1) : values[k] < values[k + 1]})

(***************************************************************************)
(* C11: findConsistentGrowth reports a page exactly when it has at least   *)
(* minWeeks + 1 records and the longest run of strictly increasing         *)
(* consecutive values, in start date order, has at least minWeeks          *)
(* increases; consecutiveWeeks is the length of that run; the result is    *)
(* in descending order of consecutiveWeeks; engagements [10,20,30,25] with *)
(* minWeeks = 2 are reported with consecutiveWeeks = 2.                    *)
(***************************************************************************)
C11_ConsistentGrowthIsLongestRun ==
  call = "findConsistentGrowth" =>
    LET Reported(pageData) ==
          {i \in 1..Len(ret) : ret[i].page = pageData[1].page}
        Qualifies(pageData) ==
          /\ Len(pageData) >= args.minWeeks + 1
          /\ LongestGrowthRun(pageData, args.metric) >= args.minWeeks
    IN /\ \A p \in 1..Len(args.dataByPage) :
            LET pageData == args.dataByPage[p]
            IN Len(pageData) > 0 =>
                 /\ Qualifies(pageData) => Cardinality(Reported(pageData)) = 1
                 /\ ~Qualifies(pageData) => Reported(pageData) = {}
                 /\ \A i \in Reported(pageData) :
                      /\ ret[i].consecutiveWeeks = LongestGrowthRun(pageData, args.metric)
                      /\ ret[i].totalWeeks = Len(pageData)
       /\ \A i \in 1..Len(ret) :
            \E p \in 1..Len(args.dataByPage) :
              Len(args.dataByPage[p]) > 0 /\ args.dataByPage[p][1].page = ret[i].page
       /\ \A i \in 1..(Len(ret) - 1) :
            ret[i].consecutiveWeeks >= ret[i + 1].consecutiveWeeks
       /\ \A p \in 1..Len(args.dataByPage) :
            (/\ args.metric = "engagements" /\ args.minWeeks = 2
             /\ MetricValues(SortByStartDate(args.dataByPage[p]), "engagements")
                  = <<10, 20, 30, 25>>)
            => \E i \in 1..Len(ret) : ret[i].consecutiveWeeks = 2

C11_Witness ==
  /\ call = "findConsistentGrowth"
  /\ args.metric = "engagements" /\ args.minWeeks = 1
  /\ Len(args.dataByPage[1]) = 2 /\ args.dataByPage[1][1].page = P2
  /\ MetricValues(SortByStartDate(args.dataByPage[2]), "engagements") = <<10, 20, 30, 25>>
  /\ Len(ret) = 2
  /\ ret[1].page = P1 /\ ret[1].consecutiveWeeks = 2
  /\ ret[2].page = P2 /\ ret[2].consecutiveWeeks = 1

(***************************************************************************)
(* C12: no call of an analytics or aggregation function changes the array  *)
(* of records it is given: every step leaves the record sequence with the  *)
(* same elements in the same order, and after findConsistentGrowth and     *)
(* analyzeReachTrend the arrays passed to them are as they were built from *)
(* the records.                                                            *)
(***************************************************************************)
C12_InputIsNotMutated ==
  [][/\ records' = records
     /\ call' = "findConsistentGrowth" =>
          \A p \in 1..Len(args'.dataByPage) :
            args'.dataByPage[p] = DataForPage(records, args'.pageIds[p])
     /\ call' = "analyzeReachTrend" => args'.weeklyData = WeeklyReach(records)]_vars

C12_Witness ==
  /\ call = "calculateWeekToWeekTrend"
  /\ Len(records) = 3
  /\ SortByStartDate(records) # records
  /\ [i \in 1..3 |-> ret[i].period] = <<W2025_9, W2025_41, W2026_1>>
  /\ [i \in 1..3 |-> records[i].period] = <<W2025_41, W2025_9, W2026_1>>

(***************************************************************************)
(* C13: for every record sequence, the empty one included, createSummary   *)
(* returns totalWeeks = the number of distinct period keys, totalPages =   *)
(* the number of distinct page ids, totalDataPoints = the number of        *)
(* records, metrics.totalEngagements = the sum of the engagements and      *)
(* metrics.averageReach = calculateAverageReach of all reach values.       *)
(***************************************************************************)
C13_SummaryCountsDistinctKeys ==
  call = "createSummary" =>
    /\ "totalWeeks" \in DOMAIN ret
    /\ ret.totalWeeks = Cardinality({getPeriodKey(records[i].period) : i \in 1..Len(records)})
    /\ "totalPages" \in DOMAIN ret
    /\ ret.totalPages = Cardinality({records[i].page.pageId : i \in 1..Len(records)})
    /\ "totalDataPoints" \in DOMAIN ret
    /\ ret.totalDataPoints = Len(records)
    /\ ret.metrics.totalEngagements = SumSeq(MetricValues(records, "engagements"))
    /\ ret.metrics.averageReach = calculateAverageReach(MetricValues(records, "reach"))

(***************************************************************************)
(* The same statement for the non-empty sequences only.                    *)
(***************************************************************************)
C13_NonEmptySummaryCountsDistinctKeys ==
  (call = "createSummary" /\ Len(records) > 0) => C13_SummaryCountsDistinctKeys

C15_IngestedRecordsMeetTheInputContract ==
  (call = "parseWeeklyCSV" /\ ret.success) =>
    \A i \in 1..Len(ret.dataset) :
      LET record == ret.dataset[i]
      IN /\ record.page.pageId # Null
         /\ record.page.pageName # Null
         /\ record.period.year \in 2000..2100
         /\ record.period.week \in 1..53
         /\ record.metrics.reach \in Nat
         /\ record.metrics.engagements \in Nat

(***************************************************************************)
(* C16: the metrics offered for selection (getMetricOptions without        *)
(* metadata, the radio buttons of the trend view) are exactly reach and    *)
(* engagements, each with the canSum that canSumMetric returns for its     *)
(* key; canSumMetric(key) is true exactly when getAggregationMethod(key)   *)
(* is 'sum', and for a key that is no registered metric canSumMetric is    *)
(* false and getAggregationMethod is 'none'.                               *)
(***************************************************************************)
C16_OfferedMetricsFollowTheRegistry ==
  LET FollowsRegistry(options) ==
        /\ Len(options) = 2
        /\ {options[i].key : i \in 1..Len(options)} = {"reach", "engagements"}
        /\ \A i \in 1..Len(options) :
             JsBool(options[i].canSum) = canSumMetric(options[i].key)
      unknown == args.metricKey \notin DOMAIN METRIC_DEFINITIONS
  IN /\ (call = "getMetricOptions" /\ ~args.includeMetadata) => FollowsRegistry(ret)
     /\ call = "TrendAnalysisView" => FollowsRegistry(ret)
     /\ call = "canSumMetric" =>
          /\ (ret = JsBool(TRUE)) <=> (getAggregationMethod(args.metricKey) = "sum")
          /\ unknown => ret = JsBool(FALSE)
     /\ call = "getAggregationMethod" =>
          /\ (ret = "sum") <=> (canSumMetric(args.metricKey) = JsBool(TRUE))
          /\ unknown => ret = "none"

(***************************************************************************)
(* C17: WeeklyDataset is append-only: addData makes size() one larger and  *)
(* leaves the records added before at their positions with their contents; *)
(* getUniquePages, getUniquePeriods, getDataForPage and getDataForPeriod   *)
(* leave data as it is; getUniquePeriods returns one period per distinct   *)
(* period key, in ascending order of (year, week), and getUniquePages one  *)
(* page per distinct pageId.                                               *)
(***************************************************************************)
C17_DatasetIsAppendOnly ==
  [][/\ call' = "addData" =>
          /\ Len(records') = Len(records) + 1
          /\ \A i \in 1..Len(records) : records'[i] = records[i]
          /\ records'[Len(records')] = args'.weeklyData
     /\ call' # "addData" => records' = records
     /\ call' = "size" => ret' = Len(records)
     /\ call' = "getUniquePeriods" =>
          /\ {getPeriodKey(ret'[k]) : k \in 1..Len(ret')}
               = {getPeriodKey(records[i].period) : i \in 1..Len(records)}
          /\ \A k \in 1..Len(ret') : \E i \in 1..Len(records) : ret'[k] = records[i].period
          /\ \A k \in 1..(Len(ret') - 1) :
               \/ ret'[k].year < ret'[k + 1].year
               \/ ret'[k].year = ret'[k + 1].year /\ ret'[k].week < ret'[k + 1].week
     /\ call' = "getUniquePages" =>
          /\ {ret'[k].pageId : k \in 1..Len(ret')}
               = {records[i].page.pageId : i \in 1..Len(records)}
          /\ \A k \in 1..Len(ret') : \E i \in 1..Len(records) : ret'[k] = records[i].page
          /\ \A k \in 1..Len(ret'), l \in 1..Len(ret') :
               ret'[k].pageId = ret'[l].pageId => k = l]_vars

C17_Witness ==
  /\ call = "getUniquePeriods"
  /\ [i \in 1..Len(records) |-> getPeriodKey(records[i].period)]
       = <<<<"2", "0", "2", "6", "_", "1">>, <<"2", "0", "2", "5", "_", "4", "5">>,
           <<"2", "0", "2", "6", "_", "1">>>>
  /\ ret = <<W2025_45, W2026_1>>

(***************************************************************************)
(* C18: validateFile returns isValid = true only for a file that is not    *)
(* empty and whose name is week, an optional _ or -, one or two digits and *)
(* .csv (in any case of the letters) with a week number in 1..53, and then *)
(* period.week is that number; for every other name isValid is false and  *)
(* the errors hold a filename error; a week that is already uploaded adds  *)
(* a warning and does not make isValid false.                              *)
(***************************************************************************)
C18_OnlyWeekFilesAreValid ==
  call = "validateFile" =>
    LET name  == toLowerCase(args.file.name)
        Named(n) ==
          \E sep \in {<<>>, <<"_">>, <<"-">>},
             digits \in {NumberToString(n), padStart(NumberToString(n), 2, "0")} :
            name = <<"w", "e", "e", "k">> \o sep \o digits \o <<".", "c", "s", "v">>
        weeks == {n \in 1..53 : Named(n)}
        uploaded == \E n \in weeks :
                      \E i \in 1..Len(args.existingPeriods) : args.existingPeriods[i].week = n
    IN /\ ret.isValid =>
            /\ args.file.size > 0
            /\ weeks # {}
            /\ ret.period.week \in weeks
       /\ weeks = {} =>
            /\ ~ret.isValid
            /\ \E i \in 1..Len(ret.errors) : ret.errors[i] = "filename_error"
       /\ (uploaded /\ args.file.size > 0) =>
            /\ ret.isValid
            /\ \E i \in 1..Len(ret.warnings) : ret.warnings[i] = "period_conflict_error"

(***************************************************************************)
(* C19, as stated: the groups of aggregateByPage, aggregateByMonth,        *)
(* aggregateByWeek and aggregateByQuarter have one shape: every group      *)
(* holds its retained member records under the same field name (weeks) and *)
(* a metrics record with the same three field names, totalEngagements,     *)
(* averageReach and weekCount.                                             *)
(***************************************************************************)
C19_GroupsHaveIdenticalShape ==
  call \in Aggregators =>
    \A key \in DOMAIN ret :
      LET IsMember(data) == IsKeyOf(call, key, data)
      IN /\ "weeks" \in DOMAIN ret[key]
         /\ ret[key].weeks = SelectSeq(records, IsMember)
         /\ DOMAIN ret[key].metrics = {"totalEngagements", "averageReach", "weekCount"}

(***************************************************************************)
(* C19, amended: every group of the four aggregators holds the records of  *)
(* its key, in input order, and a metrics record of exactly three fields,  *)
(* totalEngagements, averageReach and a member count; the member list is   *)
(* named weeks and the count weekCount in aggregateByPage,                 *)
(* aggregateByMonth and aggregateByQuarter, and they are named pages and   *)
(* pageCount in aggregateByWeek. Besides the member list and metrics a     *)
(* group carries the fields that identify it: page, or year, month and     *)
(* monthName, or period, or year and quarter.                              *)
(***************************************************************************)
C19_GroupsShareShapeUpToMemberNames ==
  call \in Aggregators =>
    \A key \in DOMAIN ret :
      LET IsMember(data) == IsKeyOf(call, key, data)
          members == IF call = "aggregateByWeek" THEN "pages" ELSE "weeks"
          count   == IF call = "aggregateByWeek" THEN "pageCount" ELSE "weekCount"
          identity ==
            CASE call = "aggregateByPage"    -> {"page"}
              [] call = "aggregateByMonth"   -> {"year", "month", "monthName"}
              [] call = "aggregateByWeek"    -> {"period"}
              [] call = "aggregateByQuarter" -> {"year", "quarter"}
      IN /\ DOMAIN ret[key] = identity \cup {members, "metrics"}
         /\ ret[key][members] = SelectSeq(records, IsMember)
         /\ DOMAIN ret[key].metrics = {"totalEngagements", "averageReach", count}

C19_Witness ==
  /\ call = "aggregateByWeek"
  /\ records = <<GroupingRecord(1, 2), GroupingRecord(2, 4), GroupingRecord(2, 2)>>
  /\ DOMAIN ret = {<<"2", "0", "2", "5", "_", "4", "1">>, <<"2", "0", "2", "6", "_", "1">>}
  /\ ret[<<"2", "0", "2", "5", "_", "4", "1">>].pages =
       <<GroupingRecord(1, 2), GroupingRecord(2, 2)>>
  /\ ret[<<"2", "0", "2", "5", "_", "4", "1">>].metrics.pageCount = 2

(***************************************************************************)
(* C20: calculateEngagementDistribution returns one entry per input        *)
(* record, holding that record's page; when the engagements of all records *)
(* sum to 0 every entry has percentage 0, and otherwise an entry's         *)
(* percentage is its record's share engagements / totalEngagements of the  *)
(* total, in percent rounded to one decimal with a half rounded up. In     *)
(* tenths t of a percent: t - 1/2 <= engagements * 1000 / total < t + 1/2. *)
(***************************************************************************)
C20_PercentageIsShareOfTotal ==
  call = "calculateEngagementDistribution" =>
    LET total == SumSeq(MetricValues(records, "engagements"))
        Entries(page, engagements) ==
          {i \in 1..Len(ret) : ret[i].page = page /\ ret[i].engagements = engagements}
        Inputs(page, engagements) ==
          {i \in 1..Len(records) :
             /\ records[i].page = page
             /\ (IF total = 0 THEN 0 ELSE records[i].metrics.engagements) = engagements}
    IN /\ Len(ret) = Len(records)
       /\ \A i \in 1..Len(ret) :
            Cardinality(Entries(ret[i].page, ret[i].engagements)) =
              Cardinality(Inputs(ret[i].page, ret[i].engagements))
       /\ total = 0 => \A i \in 1..Len(ret) : ret[i].percentage = 0
       /\ total > 0 =>
            \A i \in 1..Len(ret) :
              /\ (2 * ret[i].percentage - 1) * total <= 2000 * ret[i].engagements
              /\ 2000 * ret[i].engagements < (2 * ret[i].percentage + 1) * total

(***************************************************************************)
(* C21: findBestAndWorstWeek returns best = worst = null for an empty      *)
(* array; for a non-empty one best is the first record, in input order,    *)
(* whose metric value is the maximum and worst the first record whose      *)
(* metric value is the minimum.                                            *)
(***************************************************************************)
C21_FirstOfTiesIsBestAndWorst ==
  call = "findBestAndWorstWeek" =>
    IF Len(records) = 0
    THEN ret.best = Null /\ ret.worst = Null
    ELSE LET values == MetricValues(records, args.metric)
             FirstOf(v) == Min({i \in 1..Len(values) : values[i] = v})
         IN /\ ret.best = records[FirstOf(Max(Range(values)))]
            /\ ret.worst = records[FirstOf(Min(Range(values)))]

C21_Witness ==
  /\ call = "findBestAndWorstWeek"
  /\ args.metric = "reach"
  /\ Len(records) = 3
  /\ MetricValues(records, "reach") = <<0, MaxSmall, MaxSmall>>
  /\ records[2] # records[3]
  /\ ret.best = records[2]
  /\ ret.worst = records[1]

(***************************************************************************)
(* C22: calculateWeekToWeekTrend returns one entry per input record, with  *)
(* that record's period, reach and engagements; the entries are in         *)
(* ascending order of startDate (year, then month, then day, which is the  *)
(* order of the "YYYY-MM-DD" strings); the first entry's reachChange and   *)
(* engagementsChange are 0 and every later entry's are                     *)
(* calculateWeekOverWeekChange of its reach and its engagements against    *)
(* those of the entry just before it.                                      *)
(***************************************************************************)
C22_TrendFollowsStartDates ==
  call = "calculateWeekToWeekTrend" =>
    LET NotAfter(a, b) ==
          \/ a[1] < b[1]
          \/ a[1] = b[1] /\ a[2] < b[2]
          \/ a[1] = b[1] /\ a[2] = b[2] /\ a[3] <= b[3]
        Entries(period, reach, engagements) ==
          {i \in 1..Len(ret) : /\ ret[i].period = period
                               /\ ret[i].reach = reach
                               /\ ret[i].engagements = engagements}
        Inputs(period, reach, engagements) ==
          {i \in 1..Len(records) : /\ records[i].period = period
                                   /\ records[i].metrics.reach = reach
                                   /\ records[i].metrics.engagements = engagements}
    IN /\ Len(ret) = Len(records)
       /\ \A i \in 1..Len(ret) :
            Cardinality(Entries(ret[i].period, ret[i].reach, ret[i].engagements)) =
              Cardinality(Inputs(ret[i].period, ret[i].reach, ret[i].engagements))
       /\ \A i, j \in 1..Len(ret) :
            i < j => NotAfter(ret[i].period.startDate, ret[j].period.startDate)
       /\ Len(ret) > 0 => ret[1].reachChange = 0 /\ ret[1].engagementsChange = 0
       /\ \A i \in 2..Len(ret) :
            /\ ret[i].reachChange =
                 calculateWeekOverWeekChange(ret[i].reach, ret[i - 1].reach)
            /\ ret[i].engagementsChange =
                 calculateWeekOverWeekChange(ret[i].engagements, ret[i - 1].engagements)

C22_Witness ==
  /\ call = "calculateWeekToWeekTrend"
  /\ Len(records) = 3
  /\ records[3].period = W2026_1
  /\ MetricValues(records, "reach") = <<1, MaxSmall, 0>>
  /\ ret[1].period = W2025_9 /\ ret[2].period = W2025_41 /\ ret[3].period = W2026_1
  /\ ret[1].reachChange = 0
  /\ ret[2].reachChange < 0
  /\ ret[3].reachChange = -1000

(***************************************************************************)
(* C23, as stated: calculateAverageTrend(values) is neutral with           *)
(* changePercent 0 for fewer than two values; otherwise its trend follows  *)
(* the change from the first value to the last, (last - first) / first:    *)
(* increasing when the change is above 5 %, decreasing when it is below    *)
(* -5 %, neutral otherwise (from a first value of 0 the change is 100 %    *)
(* for a positive last value and 0 for a last value of 0).                 *)
(***************************************************************************)
C23_TrendFollowsTheExactChange ==
  call = "calculateAverageTrend" =>
    LET values == args.values
        first  == values[1]
        last   == values[Len(values)]
        above  == IF first = 0 THEN last > 0 ELSE 100 * (last - first) > 5 * first
        below  == IF first = 0 THEN FALSE ELSE 100 * (last - first) < -(5 * first)
    IN IF Len(values) < 2
       THEN ret.trend = "neutral" /\ ret.changePercent = 0
       ELSE ret.trend = (IF above THEN "increasing"
                         ELSE IF below THEN "decreasing" ELSE "neutral")

(***************************************************************************)
(* C23, amended: calculateAverageTrend(values) is neutral with             *)
(* changePercent 0 for fewer than two values; otherwise changePercent is   *)
(* calculateWeekOverWeekChange(last, first), the change from the first     *)
(* value to the last rounded to one decimal, and the trend follows that    *)
(* rounded number: increasing when changePercent > 5, decreasing when      *)
(* changePercent < -5, neutral otherwise, so that a change which rounds to *)
(* 5.0 or to -5.0 is neutral like a change of exactly 5 %. The values      *)
(* between the first and the last have no effect on the trend.             *)
(***************************************************************************)
C23_TrendFollowsTheRoundedChange ==
  call = "calculateAverageTrend" =>
    LET values == args.values
    IN IF Len(values) < 2
       THEN ret.trend = "neutral" /\ ret.changePercent = 0
       ELSE /\ ret.changePercent =
                 calculateWeekOverWeekChange(values[Len(values)], values[1])
            /\ ret.trend = (IF ret.changePercent > 50 THEN "increasing"
                            ELSE IF ret.changePercent < -50 THEN "decreasing"
                            ELSE "neutral")

C23_Witness ==
  /\ call = "calculateAverageTrend"
  /\ args.values = <<2001, 0, 2102>>
  /\ ret.changePercent = 50
  /\ ret.trend = "neutral"

C25_WarningOnlyAboveTenMillion ==
  call = "detectIncorrectReachSum" =>
    LET suspectedSum == args[1]
        weekCount    == args[2]
    IN /\ ret \in {Null, "VARNING"}
       /\ ret = "VARNING" <=> (weekCount > 1 /\ suspectedSum > 10000000)
       /\ (suspectedSum = 10000000 \/ weekCount <= 1) => ret = Null

C25_Witness ==
  /\ call = "detectIncorrectReachSum"
  /\ args = <<10000001, 2>>
  /\ ret = "VARNING"

C27_CallbackOnlyAfterValidationAndSuccess ==
  [][call' = "handleUpload" =>
       LET files == upload.selectedFiles
           allValid == \A i \in 1..Len(files) : validateFile(files[i], <<>>).isValid
       IN /\ Len(ret') <= 1
          /\ (upload.pc # "processing" /\ upload'.pc = "processing") =>
               upload.pc = "validating" /\ allValid
          /\ Len(ret') = 1 =>
               /\ upload.pc = "processing" /\ upload'.pc = "idle"
               /\ allValid
               /\ Len(ret'[1]) >= 1
               /\ \A n \in 1..Len(ret'[1]) :
                    \E i \in 1..Len(files) :
                      /\ parseWeeklyCSV(files[i].rows).success
                      /\ ret'[1][n].filename = files[i].name
                      /\ ret'[1][n].data = parseWeeklyCSV(files[i].rows).dataset
               /\ selectedFiles' = <<>>
               /\ uploadResults' # NoResults
               /\ uploadResults'.success
          /\ Len(ret') = 0 => /\ selectedFiles' = selectedFiles
                              /\ uploadedPeriods' = uploadedPeriods
    ]_vars

C27_Witness ==
  /\ call = "handleUpload"
  /\ Len(ret) = 1
  /\ Len(ret[1]) = 1
  /\ ret[1][1].year = 2024
  /\ uploadResults.successCount = 1
  /\ uploadResults.failedCount = 1
  /\ selectedFiles = <<>>
  /\ ~uploading

(***************************************************************************)
(* C28: a call of handleUpload with no selected file changes no state of   *)
(* the components; a call with a selected file starts a run; the step that *)
(* ends a run leaves uploading = false and an uploadResults that is not    *)
(* null, on the path of a validation failure, of no successful file, of    *)
(* success and of an exception; and every run in progress ends.            *)
(***************************************************************************)
C28_EveryRunEndsWithResults ==
  /\ [][/\ (call' = "handleUpload" /\ Len(selectedFiles) = 0 /\ upload'.pc = upload.pc) =>
                 UNCHANGED app
        /\ (call' = "handleUpload" /\ Len(selectedFiles) > 0 /\ upload.pc = "idle") =>
             upload'.pc = "validating" /\ uploading'
        /\ (upload.pc # "idle" /\ upload'.pc = "idle") =>
             /\ call' = "handleUpload"
             /\ ~uploading'
             /\ uploadResults' # NoResults
       ]_vars
  /\ (upload.pc # "idle") ~> (upload.pc = "idle" /\ call = "handleUpload" /\ ~uploading)

C28_Witness ==
  /\ call = "handleUpload"
  /\ upload.pc = "idle"
  /\ ~uploading
  /\ uploadResults # NoResults
  /\ uploadResults.message = "Fel vid uppladdning"
  /\ Len(selectedFiles) = 2

\* The sum of field f of the metrics of the groups under the given keys
RECURSIVE SumOfGroups(_, _, _)
SumOfGroups(groups, keys, f) ==
  IF keys = {} THEN 0
  ELSE LET key == CHOOSE k \in keys : TRUE
       IN groups[key].metrics[f] + SumOfGroups(groups, keys \ {key}, f)

(***************************************************************************)
(* C29: in what aggregateByPage, aggregateByWeek, aggregateByMonth and     *)
(* aggregateByQuarter return, every input record is a member of exactly    *)
(* one group, the counts of the groups sum to the number of records and    *)
(* their totalEngagements to sumEngagements(records); the records of one   *)
(* month group are all members of one quarter group, and a quarter's       *)
(* totalEngagements is the sum of the totalEngagements of the month groups *)
(* whose records it holds.                                                 *)
(***************************************************************************)
C29_RollUpIsConsistent ==
  call \in Aggregators =>
    LET members == IF call = "aggregateByWeek" THEN "pages" ELSE "weeks"
        count   == IF call = "aggregateByWeek" THEN "pageCount" ELSE "weekCount"
        months  == aggregateByMonth(records)
        MonthsOf(quarterKey) ==
          {monthKey \in DOMAIN months :
             Range(months[monthKey].weeks) \subseteq Range(ret[quarterKey].weeks)}
    IN /\ \A i \in 1..Len(records) :
            Cardinality({key \in DOMAIN ret : records[i] \in Range(ret[key][members])}) = 1
       /\ SumOfGroups(ret, DOMAIN ret, count) = Len(records)
       /\ SumOfGroups(ret, DOMAIN ret, "totalEngagements") = sumEngagements(records)
       /\ call = "aggregateByQuarter" =>
            /\ \A monthKey \in DOMAIN months :
                 Cardinality({quarterKey \in DOMAIN ret : monthKey \in MonthsOf(quarterKey)}) = 1
            /\ \A quarterKey \in DOMAIN ret :
                 ret[quarterKey].metrics.totalEngagements =
                   SumOfGroups(months, MonthsOf(quarterKey), "totalEngagements")

C29_Witness ==
  /\ call = "aggregateByQuarter"
  /\ records = <<GroupingRecord(1, 2), GroupingRecord(2, 3), GroupingRecord(1, 1)>>
  /\ Cardinality(DOMAIN aggregateByMonth(records)) = 3
  /\ Cardinality(DOMAIN ret) = 2
  /\ Len(ret[QuarterKey(W2025_41)].weeks) = 2
  /\ SumOfGroups(ret, DOMAIN ret, "totalEngagements") = 1795

(***************************************************************************)
(* C30, as stated: the records aggregateByMonth places in one month group  *)
(* have start dates in one calendar year and month, and the year and month *)
(* of the group are the calendar year and month of those start dates, also *)
(* for the week 1 of 2026 that starts on 2025-12-29.                       *)
(***************************************************************************)
C30_MonthGroupsAreCalendarMonths ==
  call = "aggregateByMonth" =>
    \A key \in DOMAIN ret :
      LET weeks == ret[key].weeks
      IN /\ \A i, j \in 1..Len(weeks) :
              /\ weeks[i].period.startDate[1] = weeks[j].period.startDate[1]
              /\ weeks[i].period.startDate[2] = weeks[j].period.startDate[2]
         /\ \A i \in 1..Len(weeks) :
              /\ ret[key].year = weeks[i].period.startDate[1]
              /\ ret[key].month = weeks[i].period.startDate[2]

====
